---------------------------- MODULE Spec2Model ----------------------------
(***************************************************************************)
(* A model of LayeredHashMap (MatthieuPinard/LayeredHashMap): the layered  *)
(* slot table, the per-slot AtomicRWLock, and the ThreadValue /            *)
(* ThreadManager size counter.                                             *)
(*                                                                         *)
(* Keys are size_t keys hashed by the default LayeredHash (a cast), values *)
(* are small integers, threads are numbered 1..NumThreads.                 *)
(*                                                                         *)
(* The prime / power tables of LayeredHashMapMathematics.h exist in the    *)
(* source for two word widths (32 and 64 bits).  The model uses the same   *)
(* construction at a narrower width, so that a layer holds a handful of    *)
(* slots: it keeps every condition the header states for the tables        *)
(*   NP[i] < P[i+1] < NP[i+1],  NP consecutive powers of two (as masks),   *)
(*   P[i+1] > P[i] + NP[i],     P[i] - NP[i] < P[0].                       *)
(***************************************************************************)
EXTENDS Integers, Sequences, FiniteSets, TLC

(***************************************************************************)
(* Bounds of the model.                                                    *)
(***************************************************************************)
\* Values written are 1..MaxVal.
MaxVal == 2
\* Hash values fed to the address derivation are 0..MaxHash.
MaxHash == 40
\* The threads are 1..NumThreads.
NumThreads == 3

Threads == 1 .. NumThreads
Vals == 1 .. MaxVal

(***************************************************************************)
(* LayeredHashMapMathematics.h                                             *)
(***************************************************************************)

RECURSIVE BitAnd(_, _)
\* a & b on unsigned integers.
BitAnd(a, b) ==
    IF a = 0 \/ b = 0 THEN 0
    ELSE (a % 2) * (b % 2) + 2 * BitAnd(a \div 2, b \div 2)

RECURSIVE BitOr(_, _)
\* a | b on unsigned integers.
BitOr(a, b) ==
    IF a = 0 THEN b
    ELSE IF b = 0 THEN a
    ELSE (IF a % 2 = 1 \/ b % 2 = 1 THEN 1 ELSE 0)
         + 2 * BitOr(a \div 2, b \div 2)

\* b[]: the masks of the log2 reduction (0x2, 0xC, 0xF0, 0xFF00); the model's
\* words are below 2^16, so the masks of the upper half-words are not needed.
b == <<2, 12, 240, 65280>>
\* S[]: the shift that goes with each mask.
S == <<1, 2, 4, 8>>
\* The index of the last mask used.
Log2Iterations == Len(b) - 1

RECURSIVE IntLog2Loop(_, _, _)
\* The body of IntLog2's for loop, from index i down to 0.
IntLog2Loop(X, Result, i) ==
    IF i < 0 THEN Result
    ELSE IF BitAnd(X, b[i + 1]) # 0
         THEN IntLog2Loop(X \div (2 ^ S[i + 1]), BitOr(Result, S[i + 1]), i - 1)
         ELSE IntLog2Loop(X, Result, i - 1)

\* IntLog2(X): the position of the most significant set bit.
IntLog2(X) == IntLog2Loop(X, 0, Log2Iterations)

\* __Primes: a leading 0, then the growth primes.
PrimesTable == <<0, 5, 13, 29>>
\* NextPower: consecutive powers of two minus one.
NextPowerTable == <<7, 15, 31>>

\* Primes = &__Primes[1], so that Primes[-1] = 0.  A read past the end of the
\* table is a read of whatever follows it in memory; the model gives 0.
Primes(i) == IF i + 2 \in DOMAIN PrimesTable THEN PrimesTable[i + 2] ELSE 0
NextPower(i) == IF i + 1 \in DOMAIN NextPowerTable THEN NextPowerTable[i + 1] ELSE 0

\* Equals log2(NextPower[0] + 1) - 1.
LowestExponent == IntLog2(NextPower(0) + 1) - 1
\* Equals countof(Primes).
MaxLayerCount == Len(PrimesTable) - 1
\* Equals 2^LowestExponent.
LowestNextPower == 2 ^ LowestExponent

(***************************************************************************)
(* LayeredHash.h: a key castable to size_t hashes to itself.               *)
(***************************************************************************)
Hash(Key) == Key

(***************************************************************************)
(* LayeredHashMap.h: the address derivation.                               *)
(***************************************************************************)

RawHashMod(h, last) == BitAnd(h, NextPower(last)) % Primes(last)
\* RawHash(Key) as computed while LayerLastIdx = last.
RawHash(Key, last) == RawHashMod(Hash(Key), last)

\* GetLayer without "if rawHash exceeds Prime[LayerIdx] we just take the next
\* Vector".
GetLayer_Uncorrected(rawHash) ==
    IntLog2(rawHash + (IF rawHash < LowestNextPower THEN 1 ELSE 0)
                      * LowestNextPower) - LowestExponent

GetLayer(rawHash) ==
    LET LayerIdx == IntLog2(rawHash
                            + (IF rawHash < LowestNextPower THEN 1 ELSE 0)
                              * LowestNextPower) - LowestExponent
    IN  LayerIdx + (IF rawHash >= Primes(LayerIdx) THEN 1 ELSE 0)

GetSlot(rawHash, LayerIdx) == rawHash - Primes(LayerIdx - 1)

\* The (layer, offset) that Write, Delete and Read derive for hash value h
\* while LayerLastIdx = last: RawHash, then GetLayer, then GetSlot.
DeriveAddress(h, last) ==
    LET rawHash == RawHashMod(h, last)
        LayerIdx == GetLayer(rawHash)
    IN  <<LayerIdx, GetSlot(rawHash, LayerIdx)>>

\* DeriveAddress tabulated over the hash values and layer counts of the model
\* (evaluated once instead of at every step).
AddressTable ==
    [h \in 0 .. MaxHash |->
        [last \in 0 .. MaxLayerCount - 1 |-> DeriveAddress(h, last)]]
AddressOf(h, last) == AddressTable[h][last]


(***************************************************************************)
(* The state.                                                              *)
(***************************************************************************)
VARIABLES
    LayerLastIdx,          \* LayeredHashMap::LayerLastIdx
    Slots,                 \* LayeredHashMap::Slots: layer -> offset -> Slot
    Values,                \* the thread_local ThreadValue of each thread
    ThreadValues,          \* ThreadManager::ThreadValues (the registry)
    DTOR_ThreadValuesSum,  \* ThreadManager::DTOR_ThreadValuesSum
    ManagerLock,           \* ThreadManager::ManagerLock is held
    ValueLock,             \* ThreadManager::ValueLock is held
    ValueUniqueLock,       \* ThreadManager::ValueUniqueLock.owns_lock()
    pc,                    \* where each thread stands
    loc,                   \* the local variables of each thread's call
    ub,                    \* the program has run into undefined behaviour
    hist,                  \* what has been asked of the map so far
    probe,                 \* the inputs and the result of an address derivation
    AvailableInstanceIdx,  \* the static list of the free instance indices
    InstanceIdx,           \* LayeredHashMap::InstanceIdx of every map alive;
                           \* the first one is the map of LayerLastIdx, Slots
    ListLock,              \* ConcurrentList::Lock of AvailableInstanceIdx is
                           \* held
    Other                  \* a second map alive, with the manager and the
                           \* counters of its index, while the calls are
                           \* made on the first one

mapVars == <<LayerLastIdx, Slots>>
mgrVars == <<Values, ThreadValues, DTOR_ThreadValuesSum, ManagerLock,
             ValueLock, ValueUniqueLock>>
poolVars == <<AvailableInstanceIdx, InstanceIdx, ListLock, Other>>
vars == <<LayerLastIdx, Slots, Values, ThreadValues, DTOR_ThreadValuesSum,
          ManagerLock, ValueLock, ValueUniqueLock, pc, loc, ub, hist, probe,
          AvailableInstanceIdx, InstanceIdx, ListLock, Other>>

(***************************************************************************)
(* AtomicRWLock.h: the lock word and the values of its VALUE_BITS.         *)
(***************************************************************************)
EMPTY == "EMPTY"
POPULATED == "POPULATED"

\* The word |VALUE_BITS|WRITER_BIT|READER_COUNT| as a record of its fields.
LockWord(value, writer, readers) ==
    [VALUE_BITS |-> value, WRITER_BIT |-> writer, READER_COUNT |-> readers]

\* AtomicRWLock(): ThisLock(EMPTY).
NewLock == LockWord(EMPTY, FALSE, 0)

\* READER_COUNT_MASK, the largest reader count.
ReaderCountMask == 2 ^ 30 - 1

\* A compare_exchange_strong that stores without comparing.
BlindExchange(ThisLock, OldLock, NewWord) == [ok |-> TRUE, lock |-> NewWord]

\* ThisLock.compare_exchange_strong(OldLock, NewWord): whether it stored, and
\* the word afterwards.
CompareExchange(ThisLock, OldLock, NewWord) ==
    IF ThisLock = OldLock
    THEN [ok |-> TRUE, lock |-> NewWord]
    ELSE [ok |-> FALSE, lock |-> ThisLock]

\* write_unlock(X): ThisLock.store(X).
WriteUnlocked_Populated(X) == LockWord(POPULATED, FALSE, 0)
WriteUnlocked_KeepsWriter(X) == LockWord(X, TRUE, 0)
WriteUnlocked(X) == LockWord(X, FALSE, 0)

\* A read_unlock() that leaves the word as it is.
ReadUnlocked_KeepsCount(ThisLock) == ThisLock

\* read_unlock(): ThisLock.fetch_sub(1) on the whole word, with the borrow
\* into WRITER_BIT and VALUE_BITS when READER_COUNT is 0.
ReadUnlocked(ThisLock) ==
    IF ThisLock.READER_COUNT > 0
    THEN [ThisLock EXCEPT !.READER_COUNT = @ - 1]
    ELSE IF ThisLock.WRITER_BIT
    THEN LockWord(ThisLock.VALUE_BITS, FALSE, ReaderCountMask)
    ELSE LockWord(IF ThisLock.VALUE_BITS = EMPTY THEN POPULATED ELSE EMPTY,
                  TRUE, ReaderCountMask)

(***************************************************************************)
(* LayeredHashMap.h: pairs, slots, layers.                                 *)
(***************************************************************************)
Pair(Key, Value) == [first |-> Key, second |-> Value]

\* A value-initialised Slot: lock EMPTY, Main = Pair(), no collisions.
NewSlot == [Lock |-> NewLock, Main |-> Pair(0, 0), Collisions |-> <<>>]

\* MAP_ALLOC(Idx, Size): Slots[Idx].resize(Size) on an empty vector.
MAP_ALLOC(slots, Idx, Size) ==
    [slots EXCEPT ![Idx] = [o \in 0 .. Size - 1 |-> NewSlot]]

\* The table before MAP_INIT: an array of MaxLayerCount empty vectors.
NoLayers == [l \in 0 .. MaxLayerCount - 1 |-> <<>>]

\* The index in a collision vector of the first pair whose key is Key, or 0:
\* std::find_if over Collisions.
FindCollision(Collisions, Key) ==
    LET hits == {i \in DOMAIN Collisions : Collisions[i].first = Key}
    IN  IF hits = {} THEN 0 ELSE CHOOSE i \in hits : \A j \in hits : i <= j

\* SWAP_AND_POP on a collision vector: the vector without its last element.
PopBack_KeepsLast(Collisions) == Collisions
PopBack(Collisions) == SubSeq(Collisions, 1, Len(Collisions) - 1)

\* Write, between write_lock and write_unlock, on a slot whose lock returned
\* Val: the slot afterwards, and whether Increment() is called.
WriteBody(slot, Key, Value, Val) ==
    IF Val = EMPTY
    THEN [slot |-> [slot EXCEPT !.Main = Pair(Key, Value)], inc |-> TRUE]
    ELSE IF slot.Main.first = Key
    THEN [slot |-> [slot EXCEPT !.Main.second = Value], inc |-> FALSE]
    ELSE LET it == FindCollision(slot.Collisions, Key)
         IN  IF it = 0
             THEN [slot |-> [slot EXCEPT
                               !.Collisions = Append(@, Pair(Key, Value))],
                   inc |-> TRUE]
             ELSE [slot |-> [slot EXCEPT !.Collisions[it].second = Value],
                   inc |-> FALSE]

\* A Delete that leaves the slot POPULATED when it removes a main pair that
\* has no collision to take its place.
DeleteBody_StaysPopulated(slot, Key, Val) ==
    IF Val = EMPTY
    THEN [slot |-> slot, NewSlotStatus |-> Val, deletionOccured |-> FALSE]
    ELSE IF slot.Main.first = Key
    THEN IF slot.Collisions # <<>>
         THEN [slot |-> [slot EXCEPT
                           !.Main = slot.Collisions[Len(slot.Collisions)],
                           !.Collisions = PopBack(@)],
               NewSlotStatus |-> Val, deletionOccured |-> TRUE]
         ELSE [slot |-> slot, NewSlotStatus |-> Val, deletionOccured |-> TRUE]
    ELSE LET it == FindCollision(slot.Collisions, Key)
         IN  IF it # 0
             THEN [slot |-> [slot EXCEPT
                               !.Collisions =
                                  PopBack([slot.Collisions EXCEPT
                                     ![it] = slot.Collisions[Len(slot.Collisions)]])],
                   NewSlotStatus |-> Val, deletionOccured |-> TRUE]
             ELSE [slot |-> slot, NewSlotStatus |-> Val,
                   deletionOccured |-> FALSE]

\* Delete, between write_lock and write_unlock: the slot afterwards,
\* NewSlotStatus and deletionOccured.
DeleteBody(slot, Key, Val) ==
    IF Val = EMPTY
    THEN [slot |-> slot, NewSlotStatus |-> Val, deletionOccured |-> FALSE]
    ELSE IF slot.Main.first = Key
    THEN IF slot.Collisions # <<>>
         THEN [slot |-> [slot EXCEPT
                           !.Main = slot.Collisions[Len(slot.Collisions)],
                           !.Collisions = PopBack(@)],
               NewSlotStatus |-> Val, deletionOccured |-> TRUE]
         ELSE [slot |-> slot, NewSlotStatus |-> EMPTY,
               deletionOccured |-> TRUE]
    ELSE LET it == FindCollision(slot.Collisions, Key)
         IN  IF it # 0
             THEN [slot |-> [slot EXCEPT
                               !.Collisions =
                                  PopBack([slot.Collisions EXCEPT
                                     ![it] = slot.Collisions[Len(slot.Collisions)]])],
                   NewSlotStatus |-> Val, deletionOccured |-> TRUE]
             ELSE [slot |-> slot, NewSlotStatus |-> Val,
                   deletionOccured |-> FALSE]

\* How a call ended (kind) and the number it returned (val, 0 when none).
Result(kind, val) == [kind |-> kind, val |-> val]
\* The call is in progress, or none was made.
NoResult == Result("none", 0)
\* The call returned (void), returned the number v, returned the boolean b.
Void == Result("void", 0)
Returned(v) == Result("value", v)
Bool(flag) == Result(IF flag THEN "true" ELSE "false", 0)
\* What Read throws for an absent key (std::out_of_range).
NotFound == Result("out_of_range", 0)
\* What std::unique_lock::lock() throws when it owns the lock already.
SystemError == Result("system_error", 0)

\* Read, between read_lock and read_unlock.
ReadBody(slot, Key, Val) ==
    IF Val = EMPTY THEN NotFound
    ELSE IF slot.Main.first = Key THEN Returned(slot.Main.second)
    ELSE LET it == FindCollision(slot.Collisions, Key)
         IN  IF it = 0 THEN NotFound
             ELSE Returned(slot.Collisions[it].second)


(***************************************************************************)
(* PlatformAtomic.h and ThreadManager.h: the counter and its manager.      *)
(***************************************************************************)

\* The build: with _MSC_VER on x86/AMD64 INCREMENT(X) is (++X) and yields the
\* new value; otherwise it is fetch_add(1) and yields the old one.
MSVC == TRUE

\* INCREMENT(X): the value stored and the value of the expression.
INCREMENT(X) == [stored |-> X + 1, result |-> IF MSVC THEN X + 1 ELSE X]

\* uInt and _sInt have the width of size_t; the model's word has 30 bits,
\* which hold the primes of the first layers of the 32-bit table.
WordModulus == 2 ^ 30
\* The conversion to uInt.
UInt(x) == x % WordModulus
\* The conversion to _sInt.
SInt(x) == LET y == x % WordModulus
           IN  IF y >= WordModulus \div 2 THEN y - WordModulus ELSE y

\* MAX_ERROR = 0.00001, as the divisor 1 / MAX_ERROR.
MAX_ERROR_DIVISOR == 100000

\* A ThreadValue as constructed: Value(0); Threshold is set by the manager's
\* update that ConstructThreadValue runs.
NewThreadValue == [Value |-> 0, Threshold |-> 0]

Max(x, y) == IF x >= y THEN x ELSE y

RECURSIVE SumValues(_, _)
\* The for_each of _UpdateManagerInternal and GetGlobalValue over the registry,
\* on one snapshot of the counters.
SumValues(values, registry) ==
    IF registry = <<>> THEN 0
    ELSE values[Head(registry)].Value + SumValues(values, Tail(registry))

\* NewMargin of _UpdateManagerInternal.
NewMargin(Threshold, GlobalValue, size) ==
    UInt(Max(SInt(Threshold - GlobalValue),
             SInt(Threshold \div MAX_ERROR_DIVISOR))) \div size

\* AdjustThreadThreshold on every registered counter.
AdjustAll(values, registry, margin) ==
    [t \in DOMAIN values |->
        IF \E i \in DOMAIN registry : registry[i] = t
        THEN [values[t] EXCEPT !.Threshold = values[t].Value + margin]
        ELSE values[t]]

\* AllocateLayer(): LayerLastIdx++, then MAP_ALLOC of the new layer.  Past the
\* last layer of the table it indexes Primes and Slots out of bounds.
AllocateLayer(last, slots) ==
    IF last + 1 < MaxLayerCount
    THEN [last |-> last + 1,
          slots |-> MAP_ALLOC(slots, last + 1, Primes(last + 1) - Primes(last)),
          ub |-> FALSE]
    ELSE [last |-> last + 1, slots |-> slots, ub |-> TRUE]

\* RESIZE_FUNC, the callback installed by MAP_INIT: grows the table when the
\* global value exceeds Primes[LayerLastIdx]; the target is Primes[LayerLastIdx].
RESIZE_FUNC(GlobalValue, last, slots) ==
    IF GlobalValue > Primes(last)
    THEN AllocateLayer(last, slots)
    ELSE [last |-> last, slots |-> slots, ub |-> FALSE]

\* _UpdateManagerInternal, run without interference: the counters, the table
\* and LayerLastIdx afterwards.
UpdateManagerInternal(values, registry, dtor, last, slots) ==
    LET GlobalValue == UInt(SumValues(values, registry) + dtor)
        grown == RESIZE_FUNC(GlobalValue, last, slots)
        Threshold == Primes(grown.last)
        margin == NewMargin(Threshold, GlobalValue, Len(registry))
    IN  [values |-> AdjustAll(values, registry, margin),
         last |-> grown.last, slots |-> grown.slots, ub |-> grown.ub]

\* The constructors: MAP_INIT, then AllocateLayer while
\* Primes[LayerLastIdx] < InitialSize (InitialSize = 0: the default one).
RECURSIVE ConstructLoop(_, _, _)
ConstructLoop(last, slots, InitialSize) ==
    IF Primes(last) < InitialSize
    THEN LET grown == AllocateLayer(last, slots)
         IN  IF grown.ub THEN grown
             ELSE ConstructLoop(grown.last, grown.slots, InitialSize)
    ELSE [last |-> last, slots |-> slots, ub |-> FALSE]

Construct(InitialSize) ==
    ConstructLoop(0, MAP_ALLOC(NoLayers, 0, Primes(0)), InitialSize)


(***************************************************************************)
(* LayeredHashMap.h: the static list of the free instance indices.         *)
(***************************************************************************)
\* MAX_INSTANCE_COUNT (1024 in the source).
MAX_INSTANCE_COUNT == 3

\* ConcurrentList(): push_front(i) for i = 0 .. MAX_INSTANCE_COUNT - 1.
ConcurrentList == [n \in 1 .. MAX_INSTANCE_COUNT |-> MAX_INSTANCE_COUNT - n]

\* push_front(Val).
push_front(Data, Val) == <<Val>> \o Data

\* pop_front() on a list that is not empty: Ret = Data.front() and the list
\* after Data.pop_front().
pop_front_KeepsFront(Data) == [Ret |-> Head(Data), Data |-> Data]
pop_front(Data) == [Ret |-> Head(Data), Data |-> Tail(Data)]

\* No second map is kept.
NoOther == <<>>

\* What pop_front() may return on an empty list, where Data.front() is
\* undefined: any index, or a number that is no index.
AnyRet == 0 .. MAX_INSTANCE_COUNT


(***************************************************************************)
(* What the model remembers of the calls made so far, to state the claims. *)
(* One behaviour keeps one record (hist.mode) besides the values written.  *)
(***************************************************************************)
\* Keys of the insert-and-read workload: 0..MaxKey.
MaxKey == 5
Keys == 0 .. MaxKey
\* Keys of the mixed workload: they share slot 0 of layer 0, two of them move
\* when the table grows (5 once, 21 twice).
SeqKeys == {5, 21}
\* Every key a workload may use (the hash of a key is the key).
AllKeys == 0 .. MaxHash

NoWriteOver == [stage |-> 0, Key |-> 0, Value |-> 0, same |-> TRUE]

NoHist(mode) ==
    [mode |-> mode,
     written |-> [k \in AllKeys |-> 0], \* the value last written; 0: none, deleted
     phase |-> "writes",   \* mode "phase":   "writes", then "reads", else "other"
     deleted |-> {},       \* mode "deleted": keys deleted and not written since
     old |-> {},           \* mode "old":     keys written before a growth and
                           \*                 not deleted since
     wo |-> NoWriteOver,   \* mode "wo":      the last calls were Write(Key, _),
                           \*                 Write(Key, Value), Read(Key)
     quiet |-> FALSE,      \* mode "quiet":   no Write or Delete has been in
                           \*                 progress since Size() was called
     totals |-> {},        \* mode "totals":  the sums of the counters at the
                           \*                 instants the Size() in progress
                           \*                 has held both locks
     committed |-> [k \in AllKeys |-> 0], \* mode "lin": the value written by
                           \*   the last Write of the key that has returned;
                           \*   0: none, or a Delete has returned since
     seen |-> [t \in Threads |-> {}],  \* mode "lin": the values (0: none) the
                           \*   key of thread t's Read may have between the
                           \*   call of the Read and now
     frame |-> [slots |-> <<>>, size |-> 0, had |-> FALSE, inSlot |-> FALSE],
                           \* mode "frame": the table and Size() when the
                           \*   last call was made, whether its key was
                           \*   stored by the calls before it, and whether
                           \*   the slot it addressed held the key
     mgr |-> 0,            \* mode "wait":  the thread that took ManagerLock
                           \*                last; 0: none
     occ |-> {},           \* the <<layer, slot, key>> of the pairs that the
                           \*   Writes with the lock held have added to a
                           \*   slot and no Delete has removed from it
     iter |-> [t \in Threads |-> 0]]  \* the calls thread t has made of its
                                      \* workload (the j of its loop)

\* The new value of a record kept in mode m.
Kept(m, new, old) == IF hist.mode = m THEN new ELSE old

\* The local variables of a call that has returned ret, or has not yet started.
Local(op, Key, Value, ret) ==
    [op |-> op, Key |-> Key, Value |-> Value, ret |-> ret,
     LayerIdx |-> 0, SlotIdx |-> 0, OldLock |-> NewLock, Val |-> EMPTY,
     i |-> 0, ThreadValuesSum |-> 0, GlobalValue |-> 0,
     deletionOccured |-> FALSE]

NoCall == Local("none", 0, 0, NoResult)

(***************************************************************************)
(* One thread alone: every public operation of LayeredHashMap as one step. *)
(***************************************************************************)
Main == CHOOSE t \in Threads : \A u \in Threads : t <= u

\* The sizes given to the constructor; 0 stands for the default constructor.
InitialSizes == 0 .. Primes(MaxLayerCount - 1)

\* After construction with one of the sizes by the main thread, whose
\* ThreadValue was registered (ConstructThreadValue) while the manager still
\* had its default callback.  The threads of born are running, the others have
\* not been started.
InitMain(sizes, modes, born) ==
    /\ \E InitialSize \in sizes :
          LET made == Construct(InitialSize)
          IN  LayerLastIdx = made.last /\ Slots = made.slots
    /\ ThreadValues = <<Main>>
    /\ Values = [t \in Threads |->
                   IF t = Main
                   THEN [Value |-> 0,
                         Threshold |-> NewMargin(Primes(0), 0, 1)]
                   ELSE NewThreadValue]
    /\ DTOR_ThreadValuesSum = 0
    /\ ManagerLock = FALSE /\ ValueLock = FALSE /\ ValueUniqueLock = FALSE
    /\ pc = [t \in Threads |-> IF t \in born THEN "idle" ELSE "unborn"]
    /\ loc = [t \in Threads |-> NoCall]
    /\ ub = FALSE
    /\ \E m \in modes : hist = NoHist(m)
    /\ probe = <<>>
    /\ InstanceIdx = <<pop_front(ConcurrentList).Ret>>
    /\ AvailableInstanceIdx = pop_front(ConcurrentList).Data
    /\ ListLock = FALSE
    /\ Other = NoOther

\* GetGlobalValue() with no other thread running.
SizeOf(values, registry, dtor) == UInt(SumValues(values, registry) + dtor)
SizeNow == SizeOf(Values, ThreadValues, DTOR_ThreadValuesSum)

\* Increment() of thread t with no other thread running: INCREMENT(Value),
\* UpdateManager() when the threshold is reached (the try_lock succeeds),
\* WaitForGlobalValue() (nobody owns the quiesce lock).
IncrementAlone(t, values, registry, dtor, last, slots) ==
    LET inc == INCREMENT(values[t].Value)
        counted == [values EXCEPT ![t].Value = inc.stored]
    IN  IF inc.result >= values[t].Threshold
        THEN UpdateManagerInternal(counted, registry, dtor, last, slots)
        ELSE [values |-> counted, last |-> last, slots |-> slots, ub |-> FALSE]

\* Decrement() of thread t with no other thread running.
DecrementAlone(t, values) == [values EXCEPT ![t].Value = @ - 1]

\* Write(Key, Value) by the main thread.
SeqWrite(Key, Value) ==
    LET a == AddressOf(Hash(Key), LayerLastIdx)
        slot == Slots[a[1]][a[2]]
        Val == slot.Lock.VALUE_BITS                      \* write_lock()
        body == WriteBody(slot, Key, Value, Val)
        counted == IF body.inc
                   THEN IncrementAlone(Main, Values, ThreadValues,
                                       DTOR_ThreadValuesSum, LayerLastIdx, Slots)
                   ELSE [values |-> Values, last |-> LayerLastIdx,
                         slots |-> Slots, ub |-> FALSE]
        \* WriteLock() = POPULATED; write_unlock(Val)
        released == [body.slot EXCEPT !.Lock = LockWord(POPULATED, FALSE, 0)]
        sizeAfter == SizeOf(counted.values, ThreadValues, DTOR_ThreadValuesSum)
    IN  /\ ~ub /\ pc[Main] = "idle"
        /\ Slots' = [counted.slots EXCEPT ![a[1]][a[2]] = released]
        /\ LayerLastIdx' = counted.last
        /\ Values' = counted.values
        /\ ub' = counted.ub
        /\ loc' = [loc EXCEPT ![Main] = Local("Write", 0, 0, Void)]
        /\ hist' = [hist EXCEPT
              !.written[Key] = Value,
              !.phase = Kept("phase",
                             IF @ = "writes" /\ hist.written[Key] = 0
                             THEN "writes" ELSE "other", @),
              !.deleted = Kept("deleted", @ \ {Key}, @),
              !.old = Kept("old",
                           IF counted.last # LayerLastIdx
                           THEN {k \in AllKeys : k = Key \/ hist.written[k] # 0}
                           ELSE @, @),
              !.wo = Kept("wo",
                          [stage |-> IF @.stage \in {1, 2} /\ @.Key = Key
                                     THEN 2 ELSE 1,
                           Key |-> Key, Value |-> Value,
                           same |-> sizeAfter = SizeNow], @)]
        /\ UNCHANGED <<ThreadValues, DTOR_ThreadValuesSum, ManagerLock,
                       ValueLock, ValueUniqueLock, pc, probe,
                   poolVars>>

\* Delete(Key) by the main thread.  The call keeps the value returned in
\* loc.ret, and in loc.Value whether Key had been deleted and not written
\* since when it was made (1) or not (0).
SeqDelete(Key) ==
    LET a == AddressOf(Hash(Key), LayerLastIdx)
        slot == Slots[a[1]][a[2]]
        Val == slot.Lock.VALUE_BITS                      \* write_lock()
        body == DeleteBody(slot, Key, Val)
        \* WriteLock() = NewSlotStatus; write_unlock(Val)
        released == [body.slot EXCEPT
                       !.Lock = LockWord(body.NewSlotStatus, FALSE, 0)]
    IN  /\ ~ub /\ pc[Main] = "idle"
        /\ Slots' = [Slots EXCEPT ![a[1]][a[2]] = released]
        /\ Values' = IF body.deletionOccured
                     THEN DecrementAlone(Main, Values) ELSE Values
        /\ loc' = [loc EXCEPT ![Main] =
                      Local("Delete", Key,
                            IF Key \in hist.deleted THEN 1 ELSE 0,
                            Bool(body.deletionOccured))]
        /\ hist' = [hist EXCEPT
              !.written[Key] = 0,
              !.phase = Kept("phase", "other", @),
              !.deleted = Kept("deleted", @ \cup {Key}, @),
              !.old = Kept("old", @ \ {Key}, @),
              !.wo = NoWriteOver]
        /\ UNCHANGED <<LayerLastIdx, ThreadValues, DTOR_ThreadValuesSum,
                       ManagerLock, ValueLock, ValueUniqueLock, pc, ub, probe,
                   poolVars>>

\* What Read(Key) returns in the current state when no other thread runs.
ReadNow(Key) ==
    LET a == AddressOf(Hash(Key), LayerLastIdx)
        slot == Slots[a[1]][a[2]]
    IN  ReadBody(slot, Key, slot.Lock.VALUE_BITS)

\* Read(Key) by the main thread: read_lock, the probe, read_unlock.
SeqRead(Key) ==
    /\ ~ub /\ pc[Main] = "idle"
    /\ loc' = [loc EXCEPT ![Main] = Local("Read", Key, 0, ReadNow(Key))]
    /\ hist' = [hist EXCEPT
          !.phase = Kept("phase",
                         IF @ \in {"writes", "reads"} THEN "reads" ELSE "other",
                         @),
          !.wo = IF @.stage = 2 /\ @.Key = Key
                 THEN [@ EXCEPT !.stage = 3] ELSE NoWriteOver]
    /\ UNCHANGED <<mapVars, mgrVars, pc, ub, probe,
                   poolVars>>

\* Size() by the main thread.
SeqSize ==
    /\ ~ub /\ pc[Main] = "idle"
    /\ loc' = [loc EXCEPT ![Main] = Local("Size", 0, 0, Returned(SizeNow))]
    /\ hist' = [hist EXCEPT !.phase = Kept("phase", "other", @),
                            !.wo = NoWriteOver]
    /\ UNCHANGED <<mapVars, mgrVars, pc, ub, probe,
                   poolVars>>

\* AllocateLayer(), a public method, called by the main thread while a layer
\* is left in the table.
SeqAllocateLayer ==
    LET grown == AllocateLayer(LayerLastIdx, Slots)
    IN  /\ ~ub /\ pc[Main] = "idle"
        /\ LayerLastIdx + 1 < MaxLayerCount
        /\ LayerLastIdx' = grown.last /\ Slots' = grown.slots /\ ub' = grown.ub
        /\ loc' = [loc EXCEPT ![Main] = Local("AllocateLayer", 0, 0, Void)]
        /\ hist' = [hist EXCEPT
              !.phase = Kept("phase", "other", @),
              !.wo = NoWriteOver,
              !.old = Kept("old", {k \in AllKeys : hist.written[k] # 0}, @)]
        /\ UNCHANGED <<mgrVars, pc, probe,
                   poolVars>>

\* The number of maps destroyed in a run.
MaxMaps == 1

\* LayeredHashMap() of one more map, which takes an instance index and is not
\* used.
CtorAnother ==
    /\ ~ub /\ pc[Main] = "idle"
    /\ IF AvailableInstanceIdx # <<>>
       THEN LET popped == pop_front(AvailableInstanceIdx)
            IN  /\ InstanceIdx' = Append(InstanceIdx, popped.Ret)
                /\ AvailableInstanceIdx' = popped.Data
                /\ ub' = FALSE
       ELSE /\ \E Ret \in AnyRet : InstanceIdx' = Append(InstanceIdx, Ret)
            /\ AvailableInstanceIdx' = AvailableInstanceIdx
            /\ ub' = TRUE
    /\ loc' = [loc EXCEPT ![Main] = Local("another", 0, 0, Void)]
    /\ UNCHANGED <<mapVars, mgrVars, pc, hist, probe, ListLock, Other>>

\* ~LayeredHashMap() of the j-th map alive, another one than the map of
\* LayerLastIdx and Slots: its manager is reset and its index is free again.
DtorAnother(j) ==
    /\ ~ub /\ pc[Main] = "idle"
    /\ j \in 2 .. Len(InstanceIdx)
    /\ AvailableInstanceIdx' = push_front(AvailableInstanceIdx, InstanceIdx[j])
    /\ InstanceIdx' = SubSeq(InstanceIdx, 1, j - 1)
                          \o SubSeq(InstanceIdx, j + 1, Len(InstanceIdx))
    /\ loc' = [loc EXCEPT ![Main] = NoCall]
    /\ UNCHANGED <<mapVars, mgrVars, pc, ub, hist, probe, ListLock, Other>>

\* ~LayeredHashMap() of the map of LayerLastIdx and Slots:
\* Managers[InstanceIdx].Reset(), which clears DTOR_ThreadValuesSum, makes a
\* new ValueUniqueLock and leaves ThreadValues and the counters alone, and
\* AvailableInstanceIdx.push_front(InstanceIdx).  The table is destroyed.
Dtor ==
    /\ ~ub /\ pc[Main] = "idle"
    /\ hist.iter[Main] < MaxMaps
    /\ DTOR_ThreadValuesSum' = 0
    /\ ValueUniqueLock' = FALSE
    /\ AvailableInstanceIdx' = push_front(AvailableInstanceIdx, InstanceIdx[1])
    /\ InstanceIdx' = Tail(InstanceIdx)
    /\ Slots' = NoLayers /\ LayerLastIdx' = 0
    /\ pc' = [pc EXCEPT ![Main] = "no_map"]
    /\ loc' = [loc EXCEPT ![Main] = NoCall]
    /\ hist' = [hist EXCEPT !.written = [k \in AllKeys |-> 0],
                            !.iter[Main] = @ + 1]
    /\ UNCHANGED <<Values, ThreadValues, ManagerLock, ValueLock, ub, probe,
                   ListLock, Other>>

\* LayeredHashMap(InitialSize), or LayeredHashMap() for InitialSize = 0, of
\* the next map, right after the destruction of the one before:
\* InstanceIdx(AvailableInstanceIdx.pop_front()), the index just put back,
\* then MAP_INIT and the AllocateLayer loop.  The manager of that index still
\* has the counters of the threads.
Ctor(InitialSize) ==
    LET popped == pop_front(AvailableInstanceIdx)
        made == Construct(InitialSize)
    IN  /\ ~ub /\ pc[Main] = "no_map"
        /\ InstanceIdx' = push_front(InstanceIdx, popped.Ret)
        /\ AvailableInstanceIdx' = popped.Data
        /\ LayerLastIdx' = made.last /\ Slots' = made.slots /\ ub' = made.ub
        /\ pc' = [pc EXCEPT ![Main] = "idle"]
        /\ loc' = [loc EXCEPT ![Main] =
                      Local("LayeredHashMap", 0, InitialSize, Void)]
        /\ UNCHANGED <<mgrVars, hist, probe, ListLock, Other>>

\* The life of maps: the main thread writes to a map, asks for its size,
\* constructs and destroys other maps, destroys the map and constructs the
\* next one with any size up to one more than the largest prime.
LifeKeys == {0, 5}
CtorSizes == 0 .. Primes(MaxLayerCount - 1) + 1

InitLife == InitMain({0}, {"none"}, Threads)
NextLife ==
    \/ \E k \in LifeKeys, v \in Vals : SeqWrite(k, v)
    \/ SeqSize
    \/ CtorAnother
    \/ \E j \in DOMAIN InstanceIdx : DtorAnother(j)
    \/ Dtor
    \/ \E InitialSize \in CtorSizes : Ctor(InitialSize)
SpecLife == InitLife /\ [][NextLife]_vars

\* C17: capacity exhaustion is reported.  A growth that would take
\* LayerLastIdx past the last layer of the prime table fails
\* (CapacityExceeded) instead: LayerLastIdx never exceeds MaxLayerCount - 1.
C17_CapacityReported == LayerLastIdx <= MaxLayerCount - 1

\* C18: instance-pool exhaustion is reported.  There are never more maps
\* alive than MAX_INSTANCE_COUNT, a construction beyond that failing
\* (InstancePoolExhausted), and no two maps alive have the same index.
C18_PoolExhaustionReported ==
    /\ Len(InstanceIdx) <= MAX_INSTANCE_COUNT
    /\ \A i \in DOMAIN InstanceIdx : \A j \in DOMAIN InstanceIdx :
          i # j => InstanceIdx[i] # InstanceIdx[j]

\* The smallest i with Primes[i] >= InitialSize.
SmallestLayer(InitialSize) ==
    CHOOSE i \in 0 .. MaxLayerCount - 1 :
        /\ Primes(i) >= InitialSize
        /\ \A j \in 0 .. i - 1 : Primes(j) < InitialSize

\* C20: sized construction.  A map constructed with an InitialSize up to the
\* largest prime has LayerLastIdx the smallest i with Primes[i] >=
\* InitialSize, the layers 0 .. i of lengths Primes[j] - Primes[j - 1], no
\* other layer, and Size() = 0.
C20_SizedConstruction ==
    (pc[Main] = "idle" /\ loc[Main].op = "LayeredHashMap"
     /\ loc[Main].Value <= Primes(MaxLayerCount - 1))
        => /\ LayerLastIdx = SmallestLayer(loc[Main].Value)
           /\ \A j \in 0 .. MaxLayerCount - 1 :
                 Cardinality(DOMAIN Slots[j]) =
                    IF j <= LayerLastIdx THEN Primes(j) - Primes(j - 1) ELSE 0
           /\ SizeNow = 0

\* C24: a freshly constructed map is empty.  Right after a construction,
\* also one on an index that a destroyed map owned whose writer threads are
\* still alive, Size() is 0 and no counter of the manager has more room
\* before its threshold than the growth target Primes[LayerLastIdx] of the
\* new map.
C24_FreshMapEmpty ==
    (pc[Main] = "idle" /\ loc[Main].op = "LayeredHashMap" /\ ~ub)
        => /\ SizeNow = 0
           /\ \A i \in DOMAIN ThreadValues :
                 Values[ThreadValues[i]].Threshold - Values[ThreadValues[i]].Value
                    <= Primes(LayerLastIdx)

(***************************************************************************)
(* Two maps alive and one thread that uses both.  LayerLastIdx, Slots and  *)
(* the manager variables are those of the map the thread is calling, the   *)
(* first of InstanceIdx; Other keeps the table of the second map and the   *)
(* state of Managers[InstanceIdx] and of the thread_local                  *)
(* Values[InstanceIdx] of its index.  Two maps with the same InstanceIdx   *)
(* have the same manager and the same counters.                            *)
(***************************************************************************)
\* Managers[i] and the Values[i] of the threads, for an index i no map has
\* used: the main thread's counter is registered.
UnusedManager ==
    [Values |-> [t \in Threads |->
                   IF t = Main
                   THEN [Value |-> 0, Threshold |-> NewMargin(Primes(0), 0, 1)]
                   ELSE NewThreadValue],
     ThreadValues |-> <<Main>>,
     DTOR_ThreadValuesSum |-> 0]

\* LayeredHashMap() of the second map.
CtorOther ==
    LET popped == pop_front(AvailableInstanceIdx)
        made == Construct(0)
    IN  /\ ~ub /\ pc[Main] = "idle"
        /\ Other = NoOther /\ AvailableInstanceIdx # <<>>
        /\ AvailableInstanceIdx' = popped.Data
        /\ InstanceIdx' = Append(InstanceIdx, popped.Ret)
        /\ Other' = [InstanceIdx |-> popped.Ret,
                     LayerLastIdx |-> made.last, Slots |-> made.slots,
                     Values |-> UnusedManager.Values,
                     ThreadValues |-> UnusedManager.ThreadValues,
                     DTOR_ThreadValuesSum |-> UnusedManager.DTOR_ThreadValuesSum]
        /\ loc' = [loc EXCEPT ![Main] = Local("LayeredHashMap", 0, 0, Void)]
        /\ UNCHANGED <<mapVars, mgrVars, pc, ub, hist, probe, ListLock>>

\* The thread turns to the other map: the calls that follow are made on it,
\* with Managers[InstanceIdx] and Values[InstanceIdx] of its InstanceIdx.
TurnToOther ==
    LET same == Other.InstanceIdx = InstanceIdx[1]
    IN  /\ ~ub /\ pc[Main] = "idle"
        /\ Other # NoOther
        /\ LayerLastIdx' = Other.LayerLastIdx /\ Slots' = Other.Slots
        /\ Values' = IF same THEN Values ELSE Other.Values
        /\ ThreadValues' = IF same THEN ThreadValues ELSE Other.ThreadValues
        /\ DTOR_ThreadValuesSum' =
              IF same THEN DTOR_ThreadValuesSum ELSE Other.DTOR_ThreadValuesSum
        /\ Other' = [InstanceIdx |-> InstanceIdx[1],
                     LayerLastIdx |-> LayerLastIdx, Slots |-> Slots,
                     Values |-> Values, ThreadValues |-> ThreadValues,
                     DTOR_ThreadValuesSum |-> DTOR_ThreadValuesSum]
        /\ InstanceIdx' = <<Other.InstanceIdx, InstanceIdx[1]>>
        /\ loc' = [loc EXCEPT ![Main] = NoCall]
        /\ UNCHANGED <<ManagerLock, ValueLock, ValueUniqueLock, pc, ub, hist,
                       probe, AvailableInstanceIdx, ListLock>>

\* The workload fills a map with the keys 0, 1, 2, ... in this order, as many
\* as make it grow, and deletes and writes again the first of them.
TwoKeys == 0 .. MaxKey

InitTwo == InitMain({0}, {"none"}, Threads)
NextTwo ==
    \/ CtorOther
    \/ TurnToOther
    \/ \E k \in TwoKeys : k <= Values[Main].Value /\ SeqWrite(k, MaxVal)
    \/ SeqDelete(0)
    \/ SeqSize
SpecTwo == InitTwo /\ [][NextTwo]_vars

\* What the second map is made of: its table, and the manager and the
\* counters bound to its index, which are those of the first map when both
\* maps have the same index.
ViewOfOther(other, first, values, registry, dtor) ==
    LET same == other.InstanceIdx = first
        itsValues == IF same THEN values ELSE other.Values
        itsRegistry == IF same THEN registry ELSE other.ThreadValues
        itsDtor == IF same THEN dtor ELSE other.DTOR_ThreadValuesSum
    IN  [LayerLastIdx |-> other.LayerLastIdx, Slots |-> other.Slots,
         Values |-> itsValues, ThreadValues |-> itsRegistry,
         DTOR_ThreadValuesSum |-> itsDtor,
         Size |-> SizeOf(itsValues, itsRegistry, itsDtor)]

\* C21: instance isolation.  Two maps being alive and used by the same
\* thread, a Write or a Delete on one of them leaves of the other one
\* Size(), the pairs stored, LayerLastIdx and every counter and threshold
\* bound to its manager as they were.
C21_InstanceIsolation ==
    [][(/\ Other # NoOther /\ InstanceIdx' = InstanceIdx
        /\ loc'[Main].op \in {"Write", "Delete"})
          => ViewOfOther(Other', InstanceIdx'[1], Values', ThreadValues',
                         DTOR_ThreadValuesSum')
               = ViewOfOther(Other, InstanceIdx[1], Values, ThreadValues,
                             DTOR_ThreadValuesSum)]_vars

\* The thread has written to both maps, and the map it has written to last
\* has grown while the other one has not.
C21_Witness ==
    /\ Other # NoOther
    /\ loc[Main].op = "Write"
    /\ LayerLastIdx = 1 /\ Other.LayerLastIdx = 0
    /\ SizeOf(Other.Values, Other.ThreadValues, Other.DTOR_ThreadValuesSum) > 0
    /\ Other.InstanceIdx # InstanceIdx[1]

\* The mixed workload: any operation on the keys of SeqKeys, on a map built by
\* any constructor.
InitSeq == InitMain(InitialSizes, {"deleted"}, Threads)
NextSeq ==
    \/ \E k \in SeqKeys, v \in Vals : SeqWrite(k, v)
    \/ \E k \in SeqKeys : SeqDelete(k)
    \/ \E k \in SeqKeys : SeqRead(k)
    \/ SeqSize
    \/ SeqAllocateLayer
SpecSeq == InitSeq /\ [][NextSeq]_vars

\* The insert-and-read workload: Write and Read on the keys 0..MaxKey, on a
\* default-constructed map, which the Writes make grow.
InitFill == InitMain({0}, {"phase", "wo", "old"}, Threads)
NextFill ==
    \/ \E k \in Keys, v \in Vals : SeqWrite(k, v)
    \/ \E k \in Keys : SeqRead(k)
SpecFill == InitFill /\ [][NextFill]_vars

(***************************************************************************)
(* Several threads: AtomicRWLock.h step by step.  A thread's pc says where *)
(* it is in its call, loc holds the call's local variables.                *)
(***************************************************************************)
\* The lock of the slot thread t works on.
LockOf(t) == Slots[loc[t].LayerIdx][loc[t].SlotIdx].Lock
WithLock(t, lock) ==
    [Slots EXCEPT ![loc[t].LayerIdx][loc[t].SlotIdx].Lock = lock]

Goto(t, label) == pc' = [pc EXCEPT ![t] = label]

\* read_lock() that goes on to the CAS whether a writer has the lock or not,
\* with the word it would have loaded without WRITER.
RlLoad_IgnoresWriter(t) ==
    /\ ~ub /\ pc[t] = "rl_load"
    /\ loc' = [loc EXCEPT ![t].OldLock = LockOf(t)]
    /\ Goto(t, "rl_cas")
    /\ UNCHANGED <<mapVars, mgrVars, ub, hist, probe,
                   poolVars>>

\* read_lock(): OldLock = ThisLock.load(); the loop goes on to the CAS when no
\* writer has the lock, and yields and loads again otherwise.
RlLoad(t) ==
    /\ ~ub /\ pc[t] = "rl_load"
    /\ ~LockOf(t).WRITER_BIT
    /\ loc' = [loc EXCEPT ![t].OldLock = LockOf(t)]
    /\ Goto(t, "rl_cas")
    /\ UNCHANGED <<mapVars, mgrVars, ub, hist, probe,
                   poolVars>>

\* read_lock(): compare_exchange_strong(OldLock, OldLock + 1); on success it
\* returns OldLock & VALUE_BITS_MASK, which ReadWrapper keeps in Val.
RlCas(t) ==
    LET OldLock == loc[t].OldLock
        cas == CompareExchange(LockOf(t), OldLock,
                               [OldLock EXCEPT !.READER_COUNT = @ + 1])
    IN  /\ ~ub /\ pc[t] = "rl_cas"
        /\ Slots' = WithLock(t, cas.lock)
        /\ IF cas.ok
           THEN /\ loc' = [loc EXCEPT ![t].Val = OldLock.VALUE_BITS,
                                       ![t].OldLock = NewLock]
                /\ Goto(t, "r_held")
           ELSE /\ loc' = loc
                /\ Goto(t, "rl_load")
        /\ UNCHANGED <<LayerLastIdx, mgrVars, ub, hist, probe,
                   poolVars>>

\* write_lock(): OldLock = ThisLock.load(), as in read_lock().
WlLoad(t) ==
    /\ ~ub /\ pc[t] = "wl_load"
    /\ ~LockOf(t).WRITER_BIT
    /\ loc' = [loc EXCEPT ![t].OldLock = LockOf(t)]
    /\ Goto(t, "wl_cas")
    /\ UNCHANGED <<mapVars, mgrVars, ub, hist, probe,
                   poolVars>>

\* write_lock(): compare_exchange_strong(OldLock, OldLock | WRITER_BIT_MASK);
\* on success the value to return, OldLock & VALUE_BITS_MASK, is kept in Val.
WlCas(t) ==
    LET OldLock == loc[t].OldLock
        cas == CompareExchange(LockOf(t), OldLock,
                               [OldLock EXCEPT !.WRITER_BIT = TRUE])
    IN  /\ ~ub /\ pc[t] = "wl_cas"
        /\ Slots' = WithLock(t, cas.lock)
        /\ loc' = IF cas.ok
                  THEN [loc EXCEPT ![t].Val = OldLock.VALUE_BITS,
                                   ![t].OldLock = NewLock]
                  ELSE loc
        /\ Goto(t, IF cas.ok THEN "wl_wait" ELSE "wl_load")
        /\ UNCHANGED <<LayerLastIdx, mgrVars, ub, hist, probe,
                   poolVars>>

\* write_lock(): the wait for the readers,
\* while (ThisLock.load() & READER_COUNT_MASK) yield; then it returns
\* OldLock & VALUE_BITS_MASK (kept in Val since the CAS).
WlWait(t) ==
    /\ ~ub /\ pc[t] = "wl_wait"
    /\ LockOf(t).READER_COUNT = 0
    /\ Goto(t, "w_held")
    /\ UNCHANGED <<mapVars, mgrVars, loc, ub, hist, probe,
                   poolVars>>

LockSteps(t) == RlLoad(t) \/ RlCas(t) \/ WlLoad(t) \/ WlCas(t) \/ WlWait(t)

\* The labels of a Write or Delete between the return of write_lock() and
\* write_unlock().
WriteHeldLabels ==
    {"w_held", "um_try", "um_wait", "upd", "al_resize", "upd_adj", "wfg",
     "w_unlock"}

HoldsWrite(t) ==
    pc[t] \in WriteHeldLabels /\ loc[t].op \in {"Write", "Delete", "WriteWrapper"}
HoldsRead(t) == pc[t] = "r_held"
SameSlot(t, u) ==
    loc[t].LayerIdx = loc[u].LayerIdx /\ loc[t].SlotIdx = loc[u].SlotIdx

\* The wrappers by themselves: a thread takes the lock of slot 0 of layer 0
\* with a ReadWrapper or a WriteWrapper, and destroys the wrapper.
StartWrapper(t, op) ==
    /\ ~ub /\ pc[t] = "idle"
    /\ loc' = [loc EXCEPT ![t] = Local(op, 0, 0, NoResult)]
    /\ Goto(t, IF op = "ReadWrapper" THEN "rl_load" ELSE "wl_load")
    /\ UNCHANGED <<mapVars, mgrVars, ub, hist, probe,
                   poolVars>>

\* ~ReadWrapper(): Lck.read_unlock().
ReadWrapperEnd(t) ==
    /\ ~ub /\ pc[t] = "r_held" /\ loc[t].op = "ReadWrapper"
    /\ Slots' = WithLock(t, ReadUnlocked(LockOf(t)))
    /\ loc' = [loc EXCEPT ![t] = NoCall]
    /\ Goto(t, "idle")
    /\ UNCHANGED <<LayerLastIdx, mgrVars, ub, hist, probe,
                   poolVars>>

\* WriteLock() = X; ~WriteWrapper(): Lck.write_unlock(Val).
WriteWrapperEnd(t, X) ==
    /\ ~ub /\ pc[t] = "w_held" /\ loc[t].op = "WriteWrapper"
    /\ Slots' = WithLock(t, WriteUnlocked(X))
    /\ loc' = [loc EXCEPT ![t] = NoCall]
    /\ Goto(t, "idle")
    /\ UNCHANGED <<LayerLastIdx, mgrVars, ub, hist, probe,
                   poolVars>>

InitLock == InitMain({0}, {"none"}, Threads)
NextLock ==
    \E t \in Threads :
        \/ StartWrapper(t, "ReadWrapper")
        \/ StartWrapper(t, "WriteWrapper")
        \/ LockSteps(t)
        \/ ReadWrapperEnd(t)
        \/ \E X \in {EMPTY, POPULATED} : WriteWrapperEnd(t, X)
SpecLock == InitLock /\ [][NextLock]_vars

\* C1: slot-lock mutual exclusion.  While a thread is between the return of
\* write_lock and its write_unlock on a slot, no other thread is between the
\* return of read_lock or write_lock and the matching unlock on that slot.
C1_MutualExclusion ==
    \A t \in Threads : \A u \in Threads \ {t} :
        (HoldsWrite(t) /\ SameSlot(t, u)) => ~(HoldsWrite(u) \/ HoldsRead(u))

\* A writer holds the lock while a reader is about to do its CAS with a word
\* it loaded before the writer came, and another writer waits to load.
C1_Witness ==
    \E t \in Threads : \E u \in Threads \ {t} : \E w \in Threads \ {t, u} :
        /\ HoldsWrite(t) /\ SameSlot(t, u) /\ SameSlot(t, w)
        /\ pc[u] = "rl_cas" /\ ~loc[u].OldLock.WRITER_BIT
        /\ pc[w] = "wl_load"

\* The threads between the return of read_lock and read_unlock on slot o of
\* layer l, and those between the CAS they won in write_lock and
\* write_unlock.
ReadHolders(l, o) ==
    {t \in Threads : HoldsRead(t) /\ loc[t].LayerIdx = l /\ loc[t].SlotIdx = o}
WriteWinners(l, o) ==
    {t \in Threads : /\ pc[t] = "wl_wait" \/ HoldsWrite(t)
                     /\ loc[t].LayerIdx = l /\ loc[t].SlotIdx = o}
Accounted ==
    \A l \in DOMAIN Slots : \A o \in DOMAIN Slots[l] :
        /\ Slots[l][o].Lock.READER_COUNT = Cardinality(ReadHolders(l, o))
        /\ Slots[l][o].Lock.WRITER_BIT <=> WriteWinners(l, o) # {}

\* C31: lock-word accounting.  In every state READER_COUNT of a slot's lock is
\* the number of threads that have returned from read_lock on the slot and
\* have not called read_unlock, WRITER_BIT is set exactly when a thread has
\* won the CAS of write_lock and has not called write_unlock, and while
\* WRITER_BIT is set no step makes READER_COUNT larger.
C31_LockWordAccounting ==
    [][/\ Accounted /\ Accounted'
       /\ \A l \in DOMAIN Slots : \A o \in DOMAIN Slots[l] :
             Slots[l][o].Lock.WRITER_BIT
               => Slots'[l][o].Lock.READER_COUNT
                    <= Slots[l][o].Lock.READER_COUNT]_vars

\* Two readers hold the lock of a slot, a writer has won its CAS and waits
\* for them.
C31_Witness ==
    \E t \in Threads :
        /\ pc[t] = "wl_wait"
        /\ Cardinality(ReadHolders(loc[t].LayerIdx, loc[t].SlotIdx)) = 2
        /\ LockOf(t) = LockWord(LockOf(t).VALUE_BITS, TRUE, 2)

(***************************************************************************)
(* Reader pressure on one slot: the main thread takes the lock of the slot *)
(* with a WriteWrapper again and again, every other thread with a          *)
(* ReadWrapper again and again.  Every thread is scheduled fairly: a step  *)
(* it can take for ever is taken.                                          *)
(***************************************************************************)
WriterStep(t) ==
    \/ StartWrapper(t, "WriteWrapper")
    \/ WlLoad(t) \/ WlCas(t) \/ WlWait(t)
    \/ \E X \in {EMPTY, POPULATED} : WriteWrapperEnd(t, X)
ReaderStep(t) ==
    \/ StartWrapper(t, "ReadWrapper")
    \/ RlLoad(t) \/ RlCas(t)
    \/ ReadWrapperEnd(t)

InitFair == InitMain({0}, {"none"}, Threads)
NextFair == WriterStep(Main) \/ \E t \in Threads \ {Main} : ReaderStep(t)
SpecFair ==
    /\ InitFair /\ [][NextFair]_vars
    /\ WF_vars(WriterStep(Main))
    /\ \A t \in Threads \ {Main} : WF_vars(ReaderStep(t))

\* The main thread is in write_lock(), before its CAS has set WRITER.
InWriteLock == pc[Main] \in {"wl_load", "wl_cas"}
\* The main thread is in write_lock() and has set WRITER.
WriterPending == pc[Main] = "wl_wait"
\* write_lock() has returned to the main thread.
WriteLockReturned == pc[Main] = "w_held"

\* C14 as stated: RW-lock fairness.  While the readers keep taking and
\* releasing the lock of the slot, a thread that has called write_lock
\* eventually returns from write_lock, all threads being scheduled fairly.
C14_WriterReturns == InWriteLock ~> WriteLockReturned

\* C14, amended: RW-lock fairness.  While the readers keep taking and
\* releasing the lock of the slot, a thread whose CAS in write_lock has set
\* WRITER eventually returns from write_lock: the readers drain and no reader
\* enters.
C14_PendingWriterReturns == WriterPending ~> WriteLockReturned

\* The writer has set WRITER while a reader holds the lock and another thread
\* is in read_lock.
C14_Witness ==
    /\ WriterPending /\ LockOf(Main).READER_COUNT > 0
    /\ \E t \in Threads : pc[t] = "rl_load"

(***************************************************************************)
(* AtomicLock (ManagerLock, ValueLock): a spinlock, a boolean in the model.*)
(***************************************************************************)
\* lock() returns, and wait() returns, once the lock is not held.
Free(lock) == ~lock
\* try_lock(): whether it took the lock, and the lock afterwards.
TryLock(lock) == [ok |-> ~lock, lock |-> TRUE]

(***************************************************************************)
(* Several threads: Write, Delete, Read and Size step by step.  A step is  *)
(* one access to what the threads share (LayerLastIdx, a lock, a counter,  *)
(* the manager); what a call does to the slot it has locked is part of the *)
(* step that follows.                                                      *)
(***************************************************************************)
Workers == Threads \ {Main}

\* Slots[LayerIdx][SlotIdx] exists.
InRange(slots, a) == a[1] \in DOMAIN slots /\ a[2] \in DOMAIN slots[a[1]]

\* The sum of the live counters and of DTOR_ThreadValuesSum, as uInt.
Total(values, registry, dtor) == UInt(SumValues(values, registry) + dtor)

\* A Write or a Delete is in progress.
Mutating(t) == pc[t] # "idle" /\ loc[t].op \in {"Write", "Delete"}

\* A Read of Key is in progress.
Reading(t, Key) == pc[t] # "idle" /\ loc[t].op = "Read" /\ loc[t].Key = Key

\* What a Write(_, Value) or a Delete leaves for its key: Value, or 0 (none).
Leaves(op, Value) == IF op = "Write" THEN Value ELSE 0

\* The record of the values a Read may return, when thread t calls op on Key:
\* a Read starts with the value of the last Write or Delete of Key that has
\* returned and the values of those in progress; a Write or a Delete adds its
\* value to the Reads of Key in progress.
SeenWith(t, op, Key, Value) ==
    [u \in Threads |->
        IF u = t
        THEN IF op = "Read"
             THEN {hist.committed[Key]}
                  \cup {Leaves(loc[s].op, loc[s].Value) :
                          s \in {r \in Threads : Mutating(r) /\ loc[r].Key = Key}}
             ELSE {}
        ELSE IF op # "Read" /\ Reading(u, Key)
             THEN hist.seen[u] \cup {Leaves(op, Value)}
             ELSE hist.seen[u]]

\* The record of the totals when a counter or DTOR_ThreadValuesSum changes.
TotalsWith(values, registry, dtor) ==
    IF \E s \in Threads : pc[s] = "g_sum"
    THEN hist.totals \cup {Total(values, registry, dtor)}
    ELSE hist.totals

\* The slot is POPULATED and its main pair or its collision vector has Key.
KeyInSlot(slot, Key) ==
    /\ slot.Lock.VALUE_BITS = POPULATED
    /\ (slot.Main.first = Key \/ FindCollision(slot.Collisions, Key) # 0)

\* The record of the table when a call on Key is made.
FrameOf(Key) ==
    LET a == AddressOf(Hash(Key), LayerLastIdx)
    IN  [slots |-> Slots,
         size |-> Total(Values, ThreadValues, DTOR_ThreadValuesSum),
         had |-> hist.written[Key] # 0,
         inSlot |-> InRange(Slots, a) /\ KeyInSlot(Slots[a[1]][a[2]], Key)]

\* Write, Delete, Read: RawHash, GetLayer, GetSlot with the LayerLastIdx of
\* the moment, and the reference to Slots[LayerIdx][SlotIdx], which does not
\* exist when LayerLastIdx was incremented and the layer is not resized yet.
StartCall(t, op, Key, Value) ==
    LET a == AddressOf(Hash(Key), LayerLastIdx)
        call == Local(op, Key, Value, NoResult)
    IN  /\ ~ub /\ pc[t] = "idle"
        /\ IF InRange(Slots, a)
           THEN /\ loc' = [loc EXCEPT ![t] = [call EXCEPT !.LayerIdx = a[1],
                                                          !.SlotIdx = a[2]]]
                /\ Goto(t, IF op = "Read" THEN "rl_load" ELSE "wl_load")
                /\ ub' = ub
           ELSE /\ loc' = [loc EXCEPT ![t] = call]
                /\ pc' = pc
                /\ ub' = TRUE
        /\ hist' = [hist EXCEPT
              !.quiet = Kept("quiet", @ /\ op = "Read", @),
              !.seen = Kept("lin", SeenWith(t, op, Key, Value), @),
              !.frame = Kept("frame", FrameOf(Key), @),
              !.iter[t] = @ + 1]
        /\ UNCHANGED <<mapVars, mgrVars, probe,
                   poolVars>>

\* Where a call goes after Increment()'s INCREMENT(Value) >= Threshold test.
AfterIncrement(t) ==
    IF INCREMENT(Values[t].Value).result >= Values[t].Threshold
    THEN "um_try" ELSE "wfg"

\* Write with the lock held: the if/else chain on the slot, and the
\* INCREMENT(Value) of Increment() when a pair was added.
WriteStep(t) ==
    LET l == loc[t].LayerIdx
        o == loc[t].SlotIdx
        body == WriteBody(Slots[l][o], loc[t].Key, loc[t].Value, loc[t].Val)
        counted == IF body.inc
                   THEN [Values EXCEPT ![t].Value = INCREMENT(@).stored]
                   ELSE Values
    IN  /\ ~ub /\ pc[t] = "w_held" /\ loc[t].op = "Write"
        /\ Slots' = [Slots EXCEPT ![l][o] = body.slot]
        /\ Values' = counted
        /\ loc' = [loc EXCEPT ![t].Val = POPULATED]
        /\ Goto(t, IF body.inc THEN AfterIncrement(t) ELSE "w_unlock")
        /\ hist' = [hist EXCEPT
              !.written[loc[t].Key] = loc[t].Value,
              !.occ = IF body.inc THEN @ \cup {<<l, o, loc[t].Key>>} ELSE @,
              !.totals = Kept("totals",
                              TotalsWith(counted, ThreadValues,
                                         DTOR_ThreadValuesSum), @)]
        /\ UNCHANGED <<LayerLastIdx, ThreadValues, DTOR_ThreadValuesSum,
                       ManagerLock, ValueLock, ValueUniqueLock, ub, probe,
                   poolVars>>

\* Delete with the lock held: the if/else chain on the slot, and the
\* DECREMENT(Value) of Decrement() when a pair was removed.
DeleteStep(t) ==
    LET l == loc[t].LayerIdx
        o == loc[t].SlotIdx
        body == DeleteBody(Slots[l][o], loc[t].Key, loc[t].Val)
        counted == IF body.deletionOccured
                   THEN DecrementAlone(t, Values) ELSE Values
    IN  /\ ~ub /\ pc[t] = "w_held" /\ loc[t].op = "Delete"
        /\ Slots' = [Slots EXCEPT ![l][o] = body.slot]
        /\ Values' = counted
        /\ loc' = [loc EXCEPT ![t].Val = body.NewSlotStatus,
                              ![t].deletionOccured = body.deletionOccured]
        /\ Goto(t, IF body.deletionOccured THEN "wfg" ELSE "w_unlock")
        /\ hist' = [hist EXCEPT
              !.written[loc[t].Key] = 0,
              !.occ = IF body.deletionOccured
                      THEN @ \ {<<l, o, loc[t].Key>>} ELSE @,
              !.totals = Kept("totals",
                              TotalsWith(counted, ThreadValues,
                                         DTOR_ThreadValuesSum), @)]
        /\ UNCHANGED <<LayerLastIdx, ThreadValues, DTOR_ThreadValuesSum,
                       ManagerLock, ValueLock, ValueUniqueLock, ub, probe,
                   poolVars>>

\* UpdateManager(): ManagerLock.try_lock().
UmTry(t) ==
    LET try == TryLock(ManagerLock)
    IN  /\ ~ub /\ pc[t] = "um_try"
        /\ ManagerLock' = try.lock
        /\ Goto(t, IF try.ok THEN "upd" ELSE "um_wait")
        /\ hist' = [hist EXCEPT
              !.mgr = Kept("wait", IF try.ok THEN t ELSE @, @)]
        /\ UNCHANGED <<mapVars, Values, ThreadValues, DTOR_ThreadValuesSum,
                       ValueLock, ValueUniqueLock, loc, ub, probe,
                   poolVars>>

\* UpdateManager(): ManagerLock.wait() when another thread is updating.
UmWait(t) ==
    /\ ~ub /\ pc[t] = "um_wait"
    /\ Free(ManagerLock)
    /\ Goto(t, "wfg")
    /\ UNCHANGED <<mapVars, mgrVars, loc, ub, hist, probe,
                   poolVars>>

\* Where a thread goes after _UpdateManagerInternal and ManagerLock.unlock():
\* back in Increment(), or out of ConstructThreadValue.
AfterUpdate(t) == IF loc[t].op = "Construct" THEN "idle" ELSE "wfg"

\* The end of _UpdateManagerInternal with GlobalValue computed and the
\* callback returned: NewMargin, AdjustThreadThreshold on every counter, and
\* ManagerLock.unlock().
Adjusted(GlobalValue) ==
    AdjustAll(Values, ThreadValues,
              NewMargin(Primes(LayerLastIdx), GlobalValue, Len(ThreadValues)))

\* Upd where Increment() returns to WaitForGlobalValue with ManagerLock still
\* locked.
Upd_KeepsManagerLock(t) ==
    LET GlobalValue == Total(Values, ThreadValues, DTOR_ThreadValuesSum)
    IN  /\ ~ub /\ pc[t] = "upd"
        /\ IF GlobalValue > Primes(LayerLastIdx)
           THEN /\ LayerLastIdx' = LayerLastIdx + 1
                /\ ub' = (LayerLastIdx + 1 >= MaxLayerCount)
                /\ loc' = [loc EXCEPT ![t].GlobalValue = GlobalValue,
                                      ![t].i = LayerLastIdx]
                /\ Goto(t, "al_resize")
                /\ UNCHANGED <<Values, ManagerLock>>
           ELSE /\ Values' = Adjusted(GlobalValue)
                /\ ManagerLock' = (loc[t].op # "Construct")
                /\ Goto(t, AfterUpdate(t))
                /\ UNCHANGED <<LayerLastIdx, ub, loc>>
        /\ UNCHANGED <<Slots, ThreadValues, DTOR_ThreadValuesSum, ValueLock,
                       ValueUniqueLock, hist, probe,
                   poolVars>>

\* _UpdateManagerInternal with ManagerLock held: the sum, and the callback
\* RESIZE_FUNC; without growth the thresholds are adjusted and the lock is
\* released; with growth this is AllocateLayer's LayerLastIdx++.
Upd(t) ==
    LET GlobalValue == Total(Values, ThreadValues, DTOR_ThreadValuesSum)
    IN  /\ ~ub /\ pc[t] = "upd"
        /\ IF GlobalValue > Primes(LayerLastIdx)
           THEN /\ LayerLastIdx' = LayerLastIdx + 1
                /\ ub' = (LayerLastIdx + 1 >= MaxLayerCount)
                /\ loc' = [loc EXCEPT ![t].GlobalValue = GlobalValue,
                                      ![t].i = LayerLastIdx]
                /\ Goto(t, "al_resize")
                /\ UNCHANGED <<Values, ManagerLock>>
           ELSE /\ Values' = Adjusted(GlobalValue)
                /\ ManagerLock' = FALSE
                /\ Goto(t, AfterUpdate(t))
                /\ UNCHANGED <<LayerLastIdx, ub, loc>>
        /\ UNCHANGED <<Slots, ThreadValues, DTOR_ThreadValuesSum, ValueLock,
                       ValueUniqueLock, hist, probe,
                   poolVars>>

\* AllocateLayer(): MAP_ALLOC(LayerLastIdx, NewPrime - OldPrime).
AlResize(t) ==
    /\ ~ub /\ pc[t] = "al_resize"
    /\ Slots' = MAP_ALLOC(Slots, LayerLastIdx,
                          Primes(LayerLastIdx) - Primes(loc[t].i))
    /\ loc' = [loc EXCEPT ![t].i = 0]
    /\ Goto(t, "upd_adj")
    /\ hist' = [hist EXCEPT
          !.old = Kept("old", {k \in AllKeys : hist.written[k] # 0}, @)]
    /\ UNCHANGED <<LayerLastIdx, mgrVars, ub, probe,
                   poolVars>>

\* _UpdateManagerInternal after the callback has grown the table.
UpdAdj(t) ==
    /\ ~ub /\ pc[t] = "upd_adj"
    /\ Values' = Adjusted(loc[t].GlobalValue)
    /\ ManagerLock' = FALSE
    /\ loc' = [loc EXCEPT ![t].GlobalValue = 0]
    /\ Goto(t, AfterUpdate(t))
    /\ UNCHANGED <<mapVars, ThreadValues, DTOR_ThreadValuesSum, ValueLock,
                   ValueUniqueLock, ub, hist, probe,
                   poolVars>>

\* WaitForGlobalValue(): while (ValueUniqueLock.owns_lock());
Wfg_WhileFree(t) ==
    /\ ~ub /\ pc[t] = "wfg"
    /\ ValueUniqueLock
    /\ Goto(t, "w_unlock")
    /\ UNCHANGED <<mapVars, mgrVars, loc, ub, hist, probe,
                   poolVars>>
Wfg(t) ==
    /\ ~ub /\ pc[t] = "wfg"
    /\ ~ValueUniqueLock
    /\ Goto(t, "w_unlock")
    /\ UNCHANGED <<mapVars, mgrVars, loc, ub, hist, probe,
                   poolVars>>

\* The end of Write and Delete: WriteLock() = ..., ~WriteWrapper() with its
\* write_unlock(Val), and the return.
WUnlock(t) ==
    /\ ~ub /\ pc[t] = "w_unlock" /\ loc[t].op \in {"Write", "Delete"}
    /\ Slots' = WithLock(t, WriteUnlocked(loc[t].Val))
    /\ loc' = [loc EXCEPT ![t] =
                  Local(loc[t].op, loc[t].Key, loc[t].Value,
                        IF loc[t].op = "Write" THEN Void
                        ELSE Bool(loc[t].deletionOccured))]
    /\ Goto(t, "idle")
    /\ hist' = [hist EXCEPT
          !.committed = Kept("lin",
                             [@ EXCEPT ![loc[t].Key] =
                                 Leaves(loc[t].op, loc[t].Value)], @)]
    /\ UNCHANGED <<LayerLastIdx, mgrVars, ub, probe,
                   poolVars>>

\* Read with the lock held: the lookup, ~ReadWrapper() with its read_unlock(),
\* and the return or the throw.
ReadStep(t) ==
    LET slot == Slots[loc[t].LayerIdx][loc[t].SlotIdx]
    IN  /\ ~ub /\ pc[t] = "r_held" /\ loc[t].op = "Read"
        /\ Slots' = WithLock(t, ReadUnlocked(LockOf(t)))
        /\ loc' = [loc EXCEPT ![t] =
                      Local("Read", loc[t].Key, 0,
                            ReadBody(slot, loc[t].Key, loc[t].Val))]
        /\ Goto(t, "idle")
        /\ UNCHANGED <<LayerLastIdx, mgrVars, ub, hist, probe,
                   poolVars>>

\* Size(), i.e. GetGlobalValue(): ValueUniqueLock.lock(), which throws
\* std::system_error when the unique_lock already owns ValueLock, and takes
\* ValueLock otherwise.
GVLock(t) ==
    /\ ~ub /\ pc[t] = "idle"
    /\ IF ValueUniqueLock
       THEN /\ loc' = [loc EXCEPT ![t] = Local("Size", 0, 0, SystemError)]
            /\ pc' = pc
            /\ UNCHANGED <<ValueLock, ValueUniqueLock>>
       ELSE /\ Free(ValueLock)
            /\ ValueLock' = TRUE /\ ValueUniqueLock' = TRUE
            /\ loc' = [loc EXCEPT ![t] = Local("Size", 0, 0, NoResult)]
            /\ Goto(t, "g_mlock")
    /\ hist' = [hist EXCEPT
          !.quiet = Kept("quiet", \A u \in Threads : ~Mutating(u), @),
          !.totals = Kept("totals", {}, @)]
    /\ UNCHANGED <<mapVars, Values, ThreadValues, DTOR_ThreadValuesSum,
                   ManagerLock, ub, probe,
                   poolVars>>

\* GetGlobalValue(): ManagerLock.lock(); _sInt ThreadValuesSum = 0.
GMLock(t) ==
    /\ ~ub /\ pc[t] = "g_mlock"
    /\ Free(ManagerLock)
    /\ ManagerLock' = TRUE
    /\ loc' = [loc EXCEPT ![t].i = 1, ![t].ThreadValuesSum = 0]
    /\ Goto(t, "g_sum")
    /\ hist' = [hist EXCEPT
          !.totals = Kept("totals",
                          {Total(Values, ThreadValues, DTOR_ThreadValuesSum)},
                          @),
          !.mgr = Kept("wait", t, @)]
    /\ UNCHANGED <<mapVars, Values, ThreadValues, DTOR_ThreadValuesSum,
                   ValueLock, ValueUniqueLock, ub, probe,
                   poolVars>>

\* GetGlobalValue(): one iteration of the for_each,
\* ThreadValuesSum += ThrValue->GetThreadValue(), and after the last one
\* ManagerLock.unlock().
GSum(t) ==
    /\ ~ub /\ pc[t] = "g_sum"
    /\ IF loc[t].i <= Len(ThreadValues)
       THEN /\ loc' = [loc EXCEPT
                  ![t].ThreadValuesSum = @ + Values[ThreadValues[loc[t].i]].Value,
                  ![t].i = @ + 1]
            /\ pc' = pc
            /\ ManagerLock' = ManagerLock
       ELSE /\ loc' = [loc EXCEPT ![t].i = 0]
            /\ Goto(t, "g_vunlock")
            /\ ManagerLock' = FALSE
    /\ UNCHANGED <<mapVars, Values, ThreadValues, DTOR_ThreadValuesSum,
                   ValueLock, ValueUniqueLock, ub, hist, probe,
                   poolVars>>

\* GetGlobalValue(): ValueUniqueLock.unlock().
GVUnlock(t) ==
    /\ ~ub /\ pc[t] = "g_vunlock"
    /\ ValueLock' = FALSE /\ ValueUniqueLock' = FALSE
    /\ Goto(t, "g_ret")
    /\ UNCHANGED <<mapVars, Values, ThreadValues, DTOR_ThreadValuesSum,
                   ManagerLock, loc, ub, hist, probe,
                   poolVars>>

\* GetGlobalValue(): return uInt(ThreadValuesSum + DTOR_ThreadValuesSum).
GRet(t) ==
    /\ ~ub /\ pc[t] = "g_ret"
    /\ loc' = [loc EXCEPT ![t] =
                  Local("Size", 0, 0,
                        Returned(UInt(loc[t].ThreadValuesSum
                                      + DTOR_ThreadValuesSum)))]
    /\ Goto(t, "idle")
    /\ UNCHANGED <<mapVars, mgrVars, ub, hist, probe,
                   poolVars>>

SizeSteps(t) == GMLock(t) \/ GSum(t) \/ GVUnlock(t) \/ GRet(t)

\* A thread starts: its thread_local ThreadValue is constructed, Value(0), and
\* ConstructThreadValue locks ManagerLock and appends it to ThreadValues; the
\* _UpdateManagerInternal that follows is Upd.
ThreadStart(t) ==
    /\ ~ub /\ pc[t] = "unborn"
    /\ Free(ManagerLock)
    /\ ManagerLock' = TRUE
    /\ ThreadValues' = Append(ThreadValues, t)
    /\ Values' = [Values EXCEPT ![t] = NewThreadValue]
    /\ loc' = [loc EXCEPT ![t] = Local("Construct", 0, 0, NoResult)]
    /\ Goto(t, "upd")
    /\ hist' = [hist EXCEPT !.mgr = Kept("wait", t, @)]
    /\ UNCHANGED <<mapVars, DTOR_ThreadValuesSum, ValueLock, ValueUniqueLock,
                   ub, probe,
                   poolVars>>

\* std::swap(*itThreadValue, ThreadValues.back()); ThreadValues.pop_back().
SwapAndPopBack_PopsLast(registry, t) == SubSeq(registry, 1, Len(registry) - 1)
SwapAndPopBack(registry, t) ==
    LET it == CHOOSE i \in DOMAIN registry : registry[i] = t
    IN  SubSeq([registry EXCEPT ![it] = registry[Len(registry)]],
               1, Len(registry) - 1)

\* A thread ends: ~ThreadValue() calls DestructThreadValue, which under
\* ManagerLock adds the counter to DTOR_ThreadValuesSum and takes it out of
\* ThreadValues.
ThreadExit(t) ==
    LET dtor == SInt(DTOR_ThreadValuesSum + Values[t].Value)
        registry == SwapAndPopBack(ThreadValues, t)
    IN  /\ ~ub /\ pc[t] = "idle"
        /\ Free(ManagerLock)
        /\ DTOR_ThreadValuesSum' = dtor
        /\ ThreadValues' = registry
        /\ loc' = [loc EXCEPT ![t] = NoCall]
        /\ Goto(t, "exited")
        /\ hist' = [hist EXCEPT
              !.totals = Kept("totals", TotalsWith(Values, registry, dtor), @)]
        /\ UNCHANGED <<mapVars, Values, ManagerLock, ValueLock,
                       ValueUniqueLock, ub, probe,
                   poolVars>>

(***************************************************************************)
(* The counting workload: the main thread calls Size() again and again     *)
(* while every other thread starts, makes MaxCalls calls of Write and      *)
(* Delete on a key of its own, and ends.                                   *)
(***************************************************************************)
MaxCalls == 2
\* The key of worker t: 0, 1, ...
KeyOf(t) == t - Main - 1

InitCount == InitMain({0}, {"quiet", "totals"}, {Main})
NextCount ==
    \/ GVLock(Main)
    \/ SizeSteps(Main)
    \/ \E t \in Workers :
          \/ ThreadStart(t)
          \/ hist.iter[t] < MaxCalls /\ StartCall(t, "Write", KeyOf(t), 1)
          \/ hist.iter[t] < MaxCalls /\ StartCall(t, "Delete", KeyOf(t), 0)
          \/ WlLoad(t) \/ WlCas(t) \/ WlWait(t)
          \/ WriteStep(t) \/ DeleteStep(t)
          \/ UmTry(t) \/ UmWait(t) \/ Upd(t)
          \/ Wfg(t) \/ WUnlock(t)
          \/ ThreadExit(t)
SpecCount == InitCount /\ [][NextCount]_vars

\* The number of keys the map holds by the calls made so far.
StoredKeys == Cardinality({k \in AllKeys : hist.written[k] # 0})

\* The main thread's call of Size() has returned a number.
SizeReturned ==
    pc[Main] = "idle" /\ loc[Main].op = "Size" /\ loc[Main].ret.kind = "value"

\* C7: size law (quiesced).  A Size() during which no Write or Delete was in
\* progress returns the number of keys stored, whatever the threads did
\* before, those that have ended included.
C7_QuiescedSize ==
    (hist.mode = "quiet" /\ SizeReturned /\ hist.quiet)
        => loc[Main].ret = Returned(StoredKeys)

\* C8: exact Size under concurrent mutation.  The value Size() returns while no
\* counter is retired is the sum of the counters and DTOR_ThreadValuesSum at
\* one instant at which the caller held both locks.
C8_ExactSize ==
    (hist.mode = "totals" /\ SizeReturned /\ DTOR_ThreadValuesSum = 0)
        => loc[Main].ret.val \in hist.totals

\* Thread t executes ConstructThreadValue's push_back, DestructThreadValue.
Registers(t) == pc[t] = "unborn" /\ pc'[t] = "upd"
Deregisters(t) == pc[t] = "idle" /\ pc'[t] = "exited"
\* How many times the registry holds the counter of thread u.
TimesIn(registry, u) == Cardinality({i \in DOMAIN registry : registry[i] = u})

\* C29: Register and Deregister conserve the global value.  The sum of the
\* Values of the registered counters plus DTOR_ThreadValuesSum is the same
\* right after a counter registers or deregisters as right before, other
\* threads being in the middle of their increments and decrements; after a
\* Deregister the registry holds the counter no more and every other counter
\* as often as before, once; after a Register it holds the new counter once.
C29_RegistryConserves ==
    [][\A t \in Workers :
          (Registers(t) \/ Deregisters(t)) =>
             /\ SumValues(Values', ThreadValues') + DTOR_ThreadValuesSum'
                   = SumValues(Values, ThreadValues) + DTOR_ThreadValuesSum
             /\ TimesIn(ThreadValues', t) = IF Registers(t) THEN 1 ELSE 0
             /\ \A u \in Threads \ {t} :
                   /\ TimesIn(ThreadValues', u) = TimesIn(ThreadValues, u)
                   /\ TimesIn(ThreadValues', u) <= 1]_vars

\* A thread whose counter is not 0 has deregistered while another thread is
\* in the middle of a Write or a Delete and a third counter is registered.
C29_Witness ==
    /\ \E t \in Workers : pc[t] = "exited"
    /\ DTOR_ThreadValuesSum # 0
    /\ Len(ThreadValues) >= 2
    /\ \E u \in Workers : pc[u] \in {"w_held", "um_try", "wfg", "w_unlock"}

(***************************************************************************)
(* The counting workload under fair scheduling: every thread that can take *)
(* a step keeps taking steps.  A thread that spins on a lock takes its     *)
(* step when it reads the lock free.  The main thread is free to call      *)
(* Size() or not; a Size() it has called is carried on.                    *)
(***************************************************************************)
\* The steps of the Size() caller, and those of worker t.
SizeCaller == GVLock(Main) \/ SizeSteps(Main)
CountStep(t) ==
    \/ ThreadStart(t)
    \/ hist.iter[t] < MaxCalls /\ StartCall(t, "Write", KeyOf(t), 1)
    \/ hist.iter[t] < MaxCalls /\ StartCall(t, "Delete", KeyOf(t), 0)
    \/ WlLoad(t) \/ WlCas(t) \/ WlWait(t)
    \/ WriteStep(t) \/ DeleteStep(t)
    \/ UmTry(t) \/ UmWait(t) \/ Upd(t)
    \/ Wfg(t) \/ WUnlock(t)

InitTerm == InitMain({0}, {"none"}, {Main})
NextTerm == SizeCaller \/ \E t \in Workers : CountStep(t)
SpecTerm ==
    /\ InitTerm /\ [][NextTerm]_vars
    /\ WF_vars(SizeSteps(Main))
    /\ \A t \in Workers : WF_vars(CountStep(t))

\* Thread t is in Increment() or Decrement() after the INCREMENT or DECREMENT.
InCounterOp(t) == pc[t] \in {"um_try", "um_wait", "upd", "wfg"}
\* The Write or Delete of thread t has released its slot and has returned.
CallReturned(t) == pc[t] = "idle"
\* From some moment on no thread holds the quiesce lock or the registry lock.
LocksLeftFree == <>[](~ValueUniqueLock /\ ~ManagerLock)

\* C30 as stated: counter operations terminate.  Every Size() caller
\* releasing the quiesce lock, under fair scheduling every Increment and
\* Decrement returns, so that the Write or Delete releases its slot lock; a
\* thread whose try-lock failed returns once the registry lock is free.
C30_CounterOpsReturn ==
    \A t \in Workers : InCounterOp(t) ~> CallReturned(t)

\* C30, amended: counter operations terminate.  Under fair scheduling every
\* Increment and Decrement returns, provided that from some moment on the
\* quiesce lock and the registry lock are left free: Size() is not called
\* again and again for ever.
C30_ReturnOnceLocksFree ==
    LocksLeftFree => \A t \in Workers : InCounterOp(t) ~> CallReturned(t)

\* A thread waits in WaitForGlobalValue for the Size() caller, which holds
\* the quiesce lock, while another thread, whose try-lock failed, waits for
\* the registry lock.
C30_Witness ==
    \E t \in Workers, u \in Workers :
        pc[t] = "wfg" /\ ValueUniqueLock /\ pc[u] = "um_wait" /\ ManagerLock

(***************************************************************************)
(* Maps constructed and destroyed by several threads at once, beside the   *)
(* map of LayerLastIdx and Slots, which stays alive: the steps of          *)
(* ConcurrentList::pop_front and push_front under the list's lock.  The    *)
(* tables of these maps are not represented.  A thread constructs a map    *)
(* only while fewer than MAX_INSTANCE_COUNT maps are alive, being          *)
(* constructed or being destroyed.                                         *)
(***************************************************************************)
\* The threads inside a constructor, and inside a destructor.
Constructing == {t \in Threads : pc[t] \in {"pop_lock", "pop_front",
                                            "pop_pop", "pop_unlock"}}
Destroying == {t \in Threads : pc[t] \in {"push_lock", "push_front",
                                          "push_unlock"}}

\* LayeredHashMap() is called: InstanceIdx(AvailableInstanceIdx.pop_front()).
PoolCtor(t) ==
    /\ ~ub /\ pc[t] = "idle"
    /\ Len(InstanceIdx) + Cardinality(Constructing) + Cardinality(Destroying)
          < MAX_INSTANCE_COUNT
    /\ loc' = [loc EXCEPT ![t] = Local("LayeredHashMap", 0, 0, NoResult)]
    /\ Goto(t, "pop_lock")
    /\ UNCHANGED <<mapVars, mgrVars, ub, hist, probe, poolVars>>

\* ~LayeredHashMap() of the j-th map alive is called:
\* Managers[InstanceIdx].Reset(), then AvailableInstanceIdx.push_front.
PoolDtor(t, j) ==
    /\ ~ub /\ pc[t] = "idle"
    /\ j \in 2 .. Len(InstanceIdx)
    /\ InstanceIdx' = SubSeq(InstanceIdx, 1, j - 1)
                          \o SubSeq(InstanceIdx, j + 1, Len(InstanceIdx))
    /\ loc' = [loc EXCEPT ![t] = [Local("~LayeredHashMap", 0, 0, NoResult)
                                     EXCEPT !.i = InstanceIdx[j]]]
    /\ Goto(t, "push_lock")
    /\ UNCHANGED <<mapVars, mgrVars, ub, hist, probe, AvailableInstanceIdx,
                   ListLock, Other>>

\* std::lock_guard<AtomicLock> lock(Lock) of pop_front and push_front.
ListLockGuard_NoWait(t) ==
    /\ ~ub /\ pc[t] \in {"pop_lock", "push_lock"}
    /\ ListLock' = TRUE
    /\ Goto(t, IF pc[t] = "pop_lock" THEN "pop_front" ELSE "push_front")
    /\ UNCHANGED <<mapVars, mgrVars, loc, ub, hist, probe,
                   AvailableInstanceIdx, InstanceIdx, Other>>
ListLockGuard(t) ==
    /\ ~ub /\ pc[t] \in {"pop_lock", "push_lock"}
    /\ Free(ListLock)
    /\ ListLock' = TRUE
    /\ Goto(t, IF pc[t] = "pop_lock" THEN "pop_front" ELSE "push_front")
    /\ UNCHANGED <<mapVars, mgrVars, loc, ub, hist, probe,
                   AvailableInstanceIdx, InstanceIdx, Other>>

\* pop_front(): T Ret = Data.front(), which is undefined on an empty list.
PopFront(t) ==
    /\ ~ub /\ pc[t] = "pop_front"
    /\ IF AvailableInstanceIdx = <<>>
       THEN /\ \E Ret \in AnyRet : loc' = [loc EXCEPT ![t].i = Ret]
            /\ ub' = TRUE
       ELSE /\ loc' = [loc EXCEPT
                         ![t].i = pop_front(AvailableInstanceIdx).Ret]
            /\ ub' = FALSE
    /\ Goto(t, "pop_pop")
    /\ UNCHANGED <<mapVars, mgrVars, hist, probe, poolVars>>

\* pop_front(): Data.pop_front(), which is undefined on an empty list.
PopPop(t) ==
    /\ ~ub /\ pc[t] = "pop_pop"
    /\ IF AvailableInstanceIdx = <<>>
       THEN AvailableInstanceIdx' = AvailableInstanceIdx /\ ub' = TRUE
       ELSE /\ AvailableInstanceIdx' = pop_front(AvailableInstanceIdx).Data
            /\ ub' = FALSE
    /\ Goto(t, "pop_unlock")
    /\ UNCHANGED <<mapVars, mgrVars, loc, hist, probe, InstanceIdx,
                   ListLock, Other>>

\* push_front(Val): Data.push_front(Val).
PushFront(t) ==
    /\ ~ub /\ pc[t] = "push_front"
    /\ AvailableInstanceIdx' = push_front(AvailableInstanceIdx, loc[t].i)
    /\ Goto(t, "push_unlock")
    /\ UNCHANGED <<mapVars, mgrVars, loc, ub, hist, probe, InstanceIdx,
                   ListLock, Other>>

\* The end of pop_front and push_front: ~lock_guard unlocks, and the
\* constructor goes on with the index returned; the map is alive.
ListUnlock(t) ==
    /\ ~ub /\ pc[t] \in {"pop_unlock", "push_unlock"}
    /\ ListLock' = FALSE
    /\ InstanceIdx' = IF pc[t] = "pop_unlock"
                      THEN Append(InstanceIdx, loc[t].i) ELSE InstanceIdx
    /\ loc' = [loc EXCEPT ![t].ret = Void]
    /\ Goto(t, "idle")
    /\ UNCHANGED <<mapVars, mgrVars, ub, hist, probe, AvailableInstanceIdx,
                   Other>>

InitPool == InitMain({0}, {"none"}, Threads)
NextPool ==
    \E t \in Threads :
        \/ PoolCtor(t)
        \/ \E j \in DOMAIN InstanceIdx : PoolDtor(t, j)
        \/ ListLockGuard(t)
        \/ PopFront(t) \/ PopPop(t) \/ PushFront(t)
        \/ ListUnlock(t)
SpecPool == InitPool /\ [][NextPool]_vars

\* The threads that hold index i outside the list and outside the maps
\* alive: in a constructor that has popped it, or in a destructor that has
\* not pushed it yet.
Carrying(i) ==
    {t \in Threads : /\ pc[t] \in {"pop_unlock", "push_lock", "push_front"}
                     /\ loc[t].i = i}

InitSize == InitMain({0}, {"none"}, {Main})
NextSize ==
    \/ hist.iter[Main] < 1 /\ StartCall(Main, "Write", 0, 1)
    \/ WlLoad(Main) \/ WlCas(Main) \/ WlWait(Main) \/ WriteStep(Main)
    \/ Wfg(Main) \/ WUnlock(Main)
    \/ \E t \in Threads : GVLock(t) \/ SizeSteps(t)
    \/ \E t \in Workers : ThreadStart(t) \/ Upd(t)
SpecSize == InitSize /\ [][NextSize]_vars

\* C12: Size() is thread-safe.  No call of Size() made while another thread
\* is in Size() ends with an error: each call takes the lock in its turn.
C12_SizeThreadSafe ==
    \A t \in Threads : loc[t].op = "Size" => loc[t].ret # SystemError

(***************************************************************************)
(* Every operation at once: the main thread calls Size() again and again   *)
(* while every other thread starts, makes MaxCalls calls of Write, Delete  *)
(* and Read on key 0, and ends.                                            *)
(***************************************************************************)
InitWait == InitMain({0}, {"wait"}, {Main})
NextWait ==
    \/ GVLock(Main)
    \/ SizeSteps(Main)
    \/ \E t \in Workers :
          \/ ThreadStart(t)
          \/ /\ hist.iter[t] < MaxCalls
             /\ \E op \in {"Write", "Delete", "Read"} :
                   StartCall(t, op, 0, 1)
          \/ LockSteps(t)
          \/ ReadStep(t) \/ WriteStep(t) \/ DeleteStep(t)
          \/ UmTry(t) \/ UmWait(t) \/ Upd(t)
          \/ Wfg(t) \/ WUnlock(t)
          \/ ThreadExit(t)
SpecWait == InitWait /\ [][NextWait]_vars

\* The thread between ManagerLock.lock() or a successful try_lock() and
\* ManagerLock.unlock().
ManagerHolders == {u \in Threads : ~Free(ManagerLock) /\ hist.mgr = u}
\* The thread between ValueUniqueLock.lock() and ValueUniqueLock.unlock().
ValueHolders == {u \in Threads : pc[u] \in {"g_mlock", "g_sum", "g_vunlock"}}
\* The thread whose write_lock() has set WRITER on the slot of t.
SlotWriters(t) ==
    {u \in Threads \ {t} :
        SameSlot(t, u) /\ (HoldsWrite(u) \/ pc[u] = "wl_wait")}
\* The threads that hold the read lock of the slot of t.
SlotReaders(t) == {u \in Threads \ {t} : SameSlot(t, u) /\ HoldsRead(u)}

\* The threads thread t waits for: those that hold what the loop it is in
\* tests, when the test tells it to go on waiting.
WaitsFor(t) ==
    CASE pc[t] \in {"rl_load", "wl_load"} /\ LockOf(t).WRITER_BIT ->
            SlotWriters(t)
      [] pc[t] = "wl_wait" /\ LockOf(t).READER_COUNT # 0 -> SlotReaders(t)
      [] pc[t] \in {"unborn", "um_wait", "g_mlock"} /\ ~Free(ManagerLock) ->
            ManagerHolders
      [] pc[t] = "wfg" /\ ValueUniqueLock -> ValueHolders
      [] OTHER -> {}

\* Every thread of D waits for a thread of D.
Deadlocked(D) == D # {} /\ \A t \in D : WaitsFor(t) \cap D # {}

StepCalls == 3
\* 13 stays in slot 0 of layer 0 at the first growth, 5 and 21 move.
StepKeys == {5, 13, 21}

InitStep == InitMain({0}, {"frame"}, {Main})
NextStep ==
    \/ /\ hist.iter[Main] < StepCalls
       /\ \/ \E k \in StepKeys, v \in Vals : StartCall(Main, "Write", k, v)
          \/ \E k \in StepKeys : StartCall(Main, "Delete", k, 0)
          \/ \E k \in StepKeys : StartCall(Main, "Read", k, 0)
    \/ LockSteps(Main)
    \/ ReadStep(Main) \/ WriteStep(Main) \/ DeleteStep(Main)
    \/ Wfg(Main) \/ WUnlock(Main)
    \/ SeqAllocateLayer
SpecStep == InitStep /\ [][NextStep]_vars

\* The main thread's call of op has returned or thrown.
Ended(op) ==
    /\ hist.mode = "frame"
    /\ pc[Main] = "idle" /\ loc[Main].op = op /\ loc[Main].ret # NoResult

\* The table and Size() are what they were when the call was made.
Untouched ==
    /\ Slots = hist.frame.slots
    /\ Total(Values, ThreadValues, DTOR_ThreadValuesSum) = hist.frame.size

\* C15: Read of an absent key.  A Read whose slot was EMPTY, or POPULATED
\* without the key in its main pair and its collision vector, throws
\* std::out_of_range (NotFound) and leaves the table, the lock words with their
\* VALUE bit and READER_COUNT included, and Size() as they were at the call.
C15_ReadAbsent ==
    (Ended("Read") /\ ~hist.frame.inSlot)
        => (loc[Main].ret = NotFound /\ Untouched)

\* A Read has ended on a POPULATED slot with a collision that has not the key.
C15_Witness ==
    /\ Ended("Read") /\ ~hist.frame.inSlot
    /\ LET a == AddressOf(Hash(loc[Main].Key), LayerLastIdx)
       IN  /\ Slots[a[1]][a[2]].Lock.VALUE_BITS = POPULATED
           /\ Slots[a[1]][a[2]].Collisions # <<>>

\* C16: Delete of an absent key.  A Delete returns true exactly when the key
\* was present, stored by a Write and not deleted since; when it was absent
\* the Delete returns false and leaves the table and Size() as they were.
C16_DeleteAbsent ==
    Ended("Delete")
        => /\ loc[Main].ret = Bool(hist.frame.had)
           /\ ~hist.frame.had => Untouched

(***************************************************************************)
(* The workload of BenchLayeredHashMap (Main.cpp) on a default-constructed *)
(* map: every worker writes its keys, one key in every ThreadCount, and    *)
(* reads each of them right after writing it; then it ends.                *)
(***************************************************************************)
ThreadCount == Cardinality(Workers)
\* The number of keys a worker writes.
KeysPerThread == (MaxKey + 1) \div ThreadCount
\* MAGIC_VAL, the value written for every key.
MagicVal == MaxVal
\* Precomputed[j] for the n-th j of worker t: j = i, i + ThreadCount, ...
BenchKey(t, n) == KeyOf(t) + n * ThreadCount
BenchKeys == {BenchKey(t, n) : t \in Workers, n \in 0 .. KeysPerThread - 1}

\* The next call of the loop body: shm.Write(Precomputed[j], MAGIC_VAL), then
\* shm.Read(Precomputed[j]).
BenchCall(t) ==
    LET c == hist.iter[t]
    IN  /\ c < 2 * KeysPerThread
        /\ IF c % 2 = 0
           THEN StartCall(t, "Write", BenchKey(t, c \div 2), MagicVal)
           ELSE StartCall(t, "Read", BenchKey(t, c \div 2), 0)

\* The end of the thread's lambda.
BenchExit(t) == hist.iter[t] = 2 * KeysPerThread /\ ThreadExit(t)

InitBench == InitMain({0}, {"none"}, {Main})
NextBench ==
    \E t \in Workers :
        \/ ThreadStart(t)
        \/ BenchCall(t)
        \/ RlLoad(t) \/ RlCas(t) \/ ReadStep(t)
        \/ WlLoad(t) \/ WlCas(t) \/ WlWait(t) \/ WriteStep(t)
        \/ UmTry(t) \/ UmWait(t) \/ Upd(t) \/ AlResize(t) \/ UpdAdj(t)
        \/ Wfg(t) \/ WUnlock(t)
        \/ BenchExit(t)
SpecBench == InitBench /\ [][NextBench]_vars

\* Every worker has ended (the joins have returned).
AllJoined == \A t \in Workers : pc[t] = "exited"

\* C9: concurrent disjoint inserts.  After N threads have each inserted M
\* keys of their own and have ended, every inserted key is readable with the
\* value written for it and Size() = N * M.
C9_DisjointInserts ==
    AllJoined =>
        /\ \A k \in BenchKeys : ReadNow(k) = Returned(MagicVal)
        /\ SizeNow = ThreadCount * KeysPerThread

\* C10: read-your-own-write under concurrency.  A thread's Read(k) that
\* follows its own completed Write(k, v), no other thread writing or deleting
\* k, has returned v.
C10_ReadYourOwnWrite ==
    \A t \in Workers :
        (pc[t] = "idle" /\ loc[t].op = "Read" /\ loc[t].ret # NoResult)
            => loc[t].ret = Returned(MagicVal)

\* C23: safe publication of a new layer.  While one thread executes
\* AllocateLayer and others run Read, Write and Delete, every (layer, offset)
\* that a thread derives from the LayerLastIdx it observes names a slot of an
\* allocated layer: the layer has its full length before LayerLastIdx names it.
C23_SafePublication ==
    \A k \in BenchKeys : InRange(Slots, AddressOf(Hash(k), LayerLastIdx))

\* The workload of BenchLayeredHashMap while the main thread, which owns the
\* map, calls the public AllocateLayer().
InitUpdate == InitMain({0}, {"wait"}, {Main})
NextUpdate == NextBench \/ SeqAllocateLayer
SpecUpdate == InitUpdate /\ [][NextUpdate]_vars

\* Thread t executes _UpdateManagerInternal.
InUpdate(t) == pc[t] \in {"upd", "al_resize", "upd_adj"}

\* C28: the internal update is serialised by the registry lock.  At most one
\* thread at a time executes the internal update, and every execution of
\* AllocateLayer, which increments LayerLastIdx, happens while the thread
\* that executes it holds the registry lock.
C28_UpdateSerialised ==
    [][/\ Cardinality({t \in Threads : InUpdate(t)}) <= 1
       /\ \A t \in Threads : InUpdate(t) => ManagerLock /\ hist.mgr = t
       /\ LayerLastIdx' > LayerLastIdx
             => ManagerLock /\ \E t \in Threads : InUpdate(t)]_vars

(***************************************************************************)
(* Writes, Deletes and Reads by several threads on the keys of one slot of *)
(* a default-constructed map: the keys whose address is slot 0 of layer 0. *)
(* Every worker has keys of its own, one in every ThreadCount; it writes   *)
(* them, deletes one and writes it again, and then reads a key of the     *)
(* slot, its own or another worker's.                                      *)
(***************************************************************************)
\* The keys of the slot, from the lowest.
SlotKeys == {k \in AllKeys : AddressOf(Hash(k), 0) = <<0, 0>>}
SlotKey(j) == CHOOSE k \in SlotKeys : Cardinality({m \in SlotKeys : m < k}) = j
\* The n-th key of worker t.
OwnKey(t, n) == SlotKey(BenchKey(t, n))
\* The keys the workers read: the second key of every worker.
ReadSlotKeys == {OwnKey(t, 1) : t \in Workers}

\* The Reads a worker makes after its Writes and Deletes.
MaxReads == 1

\* The calls of worker t that change the map, in order.
SlotProgram(t) ==
    <<[op |-> "Write", Key |-> OwnKey(t, 0)]>>
    \o [n \in 1 .. KeysPerThread - 1 |-> [op |-> "Write", Key |-> OwnKey(t, n)]]
    \o <<[op |-> "Delete", Key |-> OwnKey(t, 0)],
         [op |-> "Write", Key |-> OwnKey(t, 0)]>>

\* The next call of worker t.
SlotCall(t) ==
    LET c == hist.iter[t]
        program == SlotProgram(t)
    IN  IF c < Len(program)
        THEN StartCall(t, program[c + 1].op, program[c + 1].Key, MagicVal)
        ELSE /\ c < Len(program) + MaxReads
             /\ \E k \in ReadSlotKeys : StartCall(t, "Read", k, 0)

InitSlot == InitMain({0}, {"lin"}, {Main})
NextSlot ==
    \E t \in Workers :
        \/ ThreadStart(t)
        \/ SlotCall(t)
        \/ RlLoad(t) \/ RlCas(t) \/ ReadStep(t)
        \/ WlLoad(t) \/ WlCas(t) \/ WlWait(t) \/ WriteStep(t) \/ DeleteStep(t)
        \/ UmTry(t) \/ UmWait(t) \/ Upd(t) \/ AlResize(t) \/ UpdAdj(t)
        \/ Wfg(t) \/ WUnlock(t)
SpecSlot == InitSlot /\ [][NextSlot]_vars

\* What a Read returns for a key whose value is x (0: none).
ReadOf(x) == IF x = 0 THEN NotFound ELSE Returned(x)

\* C11: per-slot linearizability.  Every key being written and deleted by one
\* thread only, a Read that has returned has returned a value its key had at
\* a moment between the call and the return: that of the last Write or Delete
\* of the key that returned before the Read was called, or that of one in
\* progress during the Read (NotFound where that is a Delete, or nothing).
C11_Linearizable ==
    \A t \in Workers :
        (hist.mode = "lin" /\ pc[t] = "idle" /\ loc[t].op = "Read"
         /\ loc[t].ret # NoResult)
            => loc[t].ret \in {ReadOf(x) : x \in hist.seen[t]}

\* The keys of the pairs added to slot o of layer l and not removed from it.
Occupants(l, o) == {k \in AllKeys : <<l, o, k>> \in hist.occ}

\* C25: occupancy invariant.  Of every slot no writer holds, the VALUE bit
\* is POPULATED exactly if the slot stores a key, the main pair and the
\* overflow list holding the keys added and not removed, each once; and
\* when VALUE is EMPTY the overflow list is empty.
C25_Occupancy ==
    \A l \in DOMAIN Slots : \A o \in DOMAIN Slots[l] :
        LET slot == Slots[l][o]
        IN  ~slot.Lock.WRITER_BIT =>
              /\ slot.Lock.VALUE_BITS = POPULATED <=> Occupants(l, o) # {}
              /\ slot.Lock.VALUE_BITS = EMPTY => slot.Collisions = <<>>
              /\ slot.Lock.VALUE_BITS = POPULATED =>
                    /\ {slot.Main.first}
                          \cup {slot.Collisions[i].first :
                                   i \in DOMAIN slot.Collisions}
                         = Occupants(l, o)
                    /\ 1 + Len(slot.Collisions) = Cardinality(Occupants(l, o))

\* A Delete has removed the only pair of a slot and has returned: no writer
\* holds a slot, and the slot is EMPTY again.
C25_Witness ==
    /\ \A l \in DOMAIN Slots : \A o \in DOMAIN Slots[l] :
          ~Slots[l][o].Lock.WRITER_BIT
    /\ Slots[0][0].Lock.VALUE_BITS = EMPTY /\ hist.occ = {}
    /\ \E t \in Threads :
          pc[t] = "idle" /\ loc[t].op = "Delete" /\ loc[t].ret = Bool(TRUE)

\* Thread t executes write_unlock in this step.
WriteUnlocks(t) == pc[t] = "w_unlock" /\ pc'[t] = "idle"

\* The Delete of thread t, which holds its slot and has run its body, has
\* removed the main pair while the overflow list was empty: the body leaves
\* that pair in place, and replaces it or leaves it alone in all other cases.
RemovedLastPair(t) ==
    LET slot == Slots[loc[t].LayerIdx][loc[t].SlotIdx]
    IN  /\ loc[t].deletionOccured
        /\ slot.Main.first = loc[t].Key
        /\ slot.Collisions = <<>>

\* C26: slot state machine.  The VALUE bit of a slot changes at a
\* write_unlock on that slot only; a Write releases its slot as POPULATED; a
\* Delete releases it as EMPTY exactly if it removed the main pair while the
\* overflow list was empty, and otherwise with the value write_lock
\* returned; a Read never changes the VALUE bit.
C26_SlotStateMachine ==
    [][/\ \A l \in DOMAIN Slots : \A o \in DOMAIN Slots[l] :
             Slots'[l][o].Lock.VALUE_BITS # Slots[l][o].Lock.VALUE_BITS
                => \E t \in Threads :
                      /\ WriteUnlocks(t)
                      /\ loc[t].LayerIdx = l /\ loc[t].SlotIdx = o
       /\ \A t \in Threads :
             WriteUnlocks(t) =>
                LET l == loc[t].LayerIdx
                    o == loc[t].SlotIdx
                IN  Slots'[l][o].Lock.VALUE_BITS =
                       IF loc[t].op = "Write" THEN POPULATED
                       ELSE IF RemovedLastPair(t) THEN EMPTY
                       ELSE Slots[l][o].Lock.VALUE_BITS]_vars

\* A Delete has removed a pair of a slot that stores another one, and has
\* released the slot as POPULATED.
C26_Witness ==
    /\ \E t \in Threads :
          pc[t] = "idle" /\ loc[t].op = "Delete" /\ loc[t].ret = Bool(TRUE)
    /\ hist.occ # {}
    /\ \A l \in DOMAIN Slots : \A o \in DOMAIN Slots[l] :
          Slots[l][o].Lock.VALUE_BITS = POPULATED
             <=> Occupants(l, o) # {}

(***************************************************************************)
(* The counter of one thread that writes new keys to a default-constructed *)
(* map, with the primes of the 32-bit build: Increment(), UpdateManager()  *)
(* and the RESIZE_FUNC callback on the numbers alone, without the slots.   *)
(* In the small table of the model Threshold * MAX_ERROR is always below   *)
(* 1; from the ninth layer of the 32-bit table on it is 2 or more.         *)
(***************************************************************************)
\* __Primes_32b, its first entries.
Primes_32b == <<0, 757, 1783, 3833, 7937, 16141, 32537, 65327, 130873,
                261977, 524123>>
\* Primes = __Primes + 1 of the 32-bit build.
WidePrimes(i) == Primes_32b[i + 2]

\* The Writes of new keys made in all.
MaxFill == 262000

\* ThreadValue::Increment() of the only registered thread, DTOR_ThreadValuesSum
\* being 0: INCREMENT(Value); at the threshold UpdateManager(), whose
\* callback grows the table when GlobalValue > Primes[LayerLastIdx], and
\* AdjustThreadThreshold with the new margin.
CountedIncrement(c) ==
    LET inc == INCREMENT(c.Value)
        GlobalValue == UInt(inc.stored)
        last == IF GlobalValue > WidePrimes(c.last)
                THEN c.last + 1 ELSE c.last
        margin == NewMargin(WidePrimes(last), GlobalValue, 1)
    IN  IF inc.result >= c.Threshold
        THEN [Value |-> inc.stored, Threshold |-> inc.stored + margin,
              last |-> last]
        ELSE [c EXCEPT !.Value = inc.stored]

\* The counter of the main thread and LayerLastIdx after LayeredHashMap():
\* the thread registered under the manager's standard callback, which
\* returns Primes[0].
FillStart ==
    /\ probe = <<>>
    /\ probe' = <<[Value |-> 0,
                   Threshold |-> NewMargin(WidePrimes(0), 0, 1),
                   last |-> 0]>>
    /\ UNCHANGED <<mapVars, mgrVars, pc, loc, ub, hist, poolVars>>

\* Write(k, v) of a key that is not stored has returned.
FillWrite ==
    /\ Len(probe) = 1
    /\ probe[1].Value < MaxFill
    /\ probe' = <<CountedIncrement(probe[1])>>
    /\ UNCHANGED <<mapVars, mgrVars, pc, loc, ub, hist, poolVars>>

\* The Writes of new keys up to the last one before the threshold have
\* returned: Write after Write, INCREMENT(Value) stays below Threshold and
\* Increment() does nothing else.
FillBelowThreshold ==
    /\ Len(probe) = 1
    /\ probe[1].Value + 2 < probe[1].Threshold
    /\ probe[1].Threshold - 1 <= MaxFill
    /\ probe' = <<[probe[1] EXCEPT !.Value = probe[1].Threshold - 1]>>
    /\ UNCHANGED <<mapVars, mgrVars, pc, loc, ub, hist, poolVars>>

InitWide == InitMain({0}, {"none"}, Threads)
NextWide == FillStart \/ FillWrite \/ FillBelowThreshold
SpecWide == InitWide /\ [][NextWide]_vars

\* C27: growth is triggered on time.  With one thread, whenever a Write has
\* returned the number of stored elements is at most Primes[LayerLastIdx]:
\* the Write that takes the count past it has run the update, whose callback
\* has appended a layer.
C27_GrowthOnTime ==
    \A i \in DOMAIN probe : probe[i].Value <= WidePrimes(probe[i].last)

\* The address derivation by itself: the address of one hash value is derived,
\* the table grows (AllocateLayer), and the address of the same hash value is
\* derived again.
MathDerive(h) ==
    /\ probe = <<>>
    /\ probe' = <<[h |-> h, last |-> LayerLastIdx,
                   address |-> AddressOf(h, LayerLastIdx)]>>
    /\ UNCHANGED <<mapVars, mgrVars, pc, loc, ub, hist, poolVars>>

MathDeriveAgain ==
    /\ Len(probe) = 1
    /\ LayerLastIdx > probe[1].last
    /\ probe' = Append(probe, [h |-> probe[1].h, last |-> LayerLastIdx,
                               address |-> AddressOf(probe[1].h, LayerLastIdx)])
    /\ UNCHANGED <<mapVars, mgrVars, pc, loc, ub, hist, poolVars>>

InitMath == InitMain(InitialSizes, {"none"}, Threads)
NextMath ==
    \/ \E h \in 0 .. MaxHash : MathDerive(h)
    \/ SeqAllocateLayer
    \/ MathDeriveAgain
SpecMath == InitMath /\ [][NextMath]_vars

\* C19: layer math.  For every LayerLastIdx = last and every rawHash below
\* Primes[last], GetLayer and GetSlot give (layer, offset) with
\* Primes[layer - 1] <= rawHash < Primes[layer], layer <= last and
\* offset < Primes[layer] - Primes[layer - 1]: taking the next layer once is
\* enough.
C19_LayerMath ==
    \A n \in DOMAIN probe :
        LET rawHash == RawHashMod(probe[n].h, probe[n].last)
            layer == probe[n].address[1]
            offset == probe[n].address[2]
        IN  /\ Primes(layer - 1) <= rawHash /\ rawHash < Primes(layer)
            /\ layer <= probe[n].last
            /\ offset < Primes(layer) - Primes(layer - 1)

\* An address has been derived for a rawHash that is not below the prime of
\* the layer its logarithm gives, so that the next layer was taken.
C19_Witness ==
    \E n \in DOMAIN probe :
        LET rawHash == RawHashMod(probe[n].h, probe[n].last)
        IN  /\ rawHash >= LowestNextPower
            /\ rawHash >= Primes(IntLog2(rawHash) - LowestExponent)
            /\ probe[n].address[1] = IntLog2(rawHash) - LowestExponent + 1

\* C6: address stability.  The (layer, offset) derived from a hash value when
\* LayerLastIdx = i equals the one derived from it when LayerLastIdx = j, for
\* all j > i.
C6_AddressStability ==
    Len(probe) = 2 => probe[1].address = probe[2].address

(***************************************************************************)
(* Claims about one thread alone.                                          *)
(***************************************************************************)
\* What Delete(Key) would return in the current state when no other thread
\* runs.
DeleteNow(Key) ==
    LET a == AddressOf(Hash(Key), LayerLastIdx)
        slot == Slots[a[1]][a[2]]
    IN  DeleteBody(slot, Key, slot.Lock.VALUE_BITS).deletionOccured

\* The value a Read of Key has to return by the calls made so far.
Expected(Key) ==
    IF hist.written[Key] # 0 THEN Returned(hist.written[Key]) ELSE NotFound

\* C2: sequential functional correctness.  After Writes with distinct keys
\* followed by Reads only, every Read(k) has returned the value written for k,
\* or NotFound when k was never written, also when the Writes made the table
\* grow.
C2_ReadsReturnWhatWasWritten ==
    (hist.mode = "phase" /\ hist.phase = "reads" /\ loc[Main].op = "Read")
        => loc[Main].ret = Expected(loc[Main].Key)

\* C3: write-over.  After Write(k, v1); Write(k, v2); Read(k) the Read has
\* returned v2, and the second Write did not change Size().
C3_WriteOver ==
    (hist.mode = "wo" /\ hist.wo.stage = 3)
        => (loc[Main].ret = Returned(hist.wo.Value) /\ hist.wo.same)

\* C4: idempotent Delete.  Once Delete(k) has returned and no Write(k) has
\* followed, a Delete(k) returns false and a Read(k) fails with NotFound: the
\* calls that have returned did so, and the next call will.
C4_IdempotentDelete ==
    hist.mode = "deleted" =>
        /\ (loc[Main].op = "Delete" /\ loc[Main].Value = 1)
               => loc[Main].ret = Bool(FALSE)
        /\ (loc[Main].op = "Read" /\ loc[Main].Key \in hist.deleted)
               => loc[Main].ret = NotFound
        /\ \A k \in hist.deleted : ~DeleteNow(k) /\ ReadNow(k) = NotFound

\* A Delete of a key already deleted has returned false, on a table that has
\* all its layers and still holds pairs.
C4_Witness ==
    /\ hist.mode = "deleted"
    /\ loc[Main].op = "Delete" /\ loc[Main].Value = 1
    /\ loc[Main].ret = Bool(FALSE)
    /\ LayerLastIdx = MaxLayerCount - 1
    /\ SizeNow > 0

\* C5: growth preserves contents.  Every key written before a growth and not
\* deleted since is returned by Read with the value last written for it.
C5_GrowthPreservesContents ==
    (hist.mode = "old" /\ loc[Main].op = "Read" /\ loc[Main].Key \in hist.old)
        => loc[Main].ret = Returned(hist.written[loc[Main].Key])

\* The places of the table where a pair of Key is stored: <<l, o, 0>> for the
\* main pair of the POPULATED slot o of layer l, <<l, o, i>> for the i-th pair
\* of its collision vector.
PlacesIn(l, o, Key) ==
    LET slot == Slots[l][o]
    IN  IF slot.Lock.VALUE_BITS = POPULATED
        THEN (IF slot.Main.first = Key THEN {<<l, o, 0>>} ELSE {})
               \cup {<<l, o, i>> : i \in {j \in DOMAIN slot.Collisions :
                                            slot.Collisions[j].first = Key}}
        ELSE {}
PlacesOf(Key) ==
    UNION {UNION {PlacesIn(l, o, Key) : o \in DOMAIN Slots[l]} :
             l \in DOMAIN Slots}

\* C32: no duplicate keys.  After any sequence of Write and Delete no key
\* occurs more than once in the whole table: not twice in the main pair and
\* the collision vector of one slot, and not in two slots.
C32_NoDuplicateKeys ==
    \A k \in AllKeys : Cardinality(PlacesOf(k)) <= 1

\* The keys the sequential workloads use: no other key is ever stored.
UsedKeys == Keys \cup SeqKeys

\* The keys for which Read does not return after the step what it returned
\* before it.
ReadsChanged == {k \in UsedKeys : ReadNow(k)' # ReadNow(k)}

\* C33: frame of single-key mutations.  Write(k, v) and Delete(k) leave the
\* value associated with every other key as it was, the keys that share the
\* slot of k included: what Read returns for another key is the same after
\* the call as before it.
C33_SingleKeyFrame ==
    [][\/ ReadsChanged = {}
       \/ \A k \in UsedKeys :
             ((\E v \in Vals : SeqWrite(k, v)) \/ SeqDelete(k))
                => ReadsChanged \subseteq {k}]_vars

=============================================================================
